---- MODULE Spec2Model ----
(***************************************************************************)
(* A model of numba/inline_closurecall.py: the closure inlining worklist   *)
(* of InlineClosureCallPass.run, the list-to-array loop rewrite            *)
(* (_inline_arraycall) and the nested array fixup (_fix_nested_array).     *)
(*                                                                         *)
(* The IR is modelled as the code sees it.  Expressions are objects of a   *)
(* heap (a sequence, an object's identity is its index), because the pass  *)
(* mutates expression objects in place and compares them by identity;      *)
(* statements refer to expressions by identity, the definitions table maps *)
(* a variable name to the list of expression objects assigned to it.       *)
(***************************************************************************)
EXTENDS Integers, Sequences, FiniteSets, TLC

VARIABLES
    input,          \* the function under compilation (parameters of the text)
    phase,          \* which part of the pass the behaviour is in
    blocks,         \* func_ir.blocks: label -> [body, scope]
    definitions,    \* func_ir._definitions: name -> <<expression ids>>
    heap,           \* the expression objects
    scope,          \* names defined in the caller's scope
    work_list,      \* run(): the worklist of block labels
    max_label,      \* ir_utils._max_label
    unique_var,     \* ir_utils._unique_var_count
    error,          \* "" or the fatal error that left run()
    n_inlined,      \* number of completed inline_closure_call
    last,           \* record of the last operation (for the properties)
    modified,       \* run(): the flag `modified`
    cfg,            \* run(): the control flow graph and its loops (line 66)
    visited,        \* run(): headers of the loops already attempted
    todo,           \* run(): headers of the loops still to attempt, in order
    temps,          \* number of temporaries made by scope.make_temp
    machine,        \* the state of an execution of the function's IR
    trace           \* what the executions did: appends, allocations, stores

vars == <<input, phase, blocks, definitions, heap, scope, work_list, max_label,
          unique_var, error, n_inlined, last, modified, cfg, visited, todo,
          temps, machine, trace>>

\* The variables of the loop rewrite, and those of the closure inlining.
loopvars == <<cfg, visited, todo, temps, machine, trace>>
inlinevars == <<scope, work_list, max_label, unique_var, n_inlined>>

-----------------------------------------------------------------------------
(* Generic helpers *)

Max(S) == CHOOSE x \in S : \A y \in S : y <= x
Min(S) == CHOOSE x \in S : \A y \in S : x <= y

RECURSIVE SortedSeq(_)
SortedSeq(S) == IF S = {} THEN <<>> ELSE <<Min(S)>> \o SortedSeq(S \ {Min(S)})

Range(s) == {s[i] : i \in DOMAIN s}

RECURSIVE Flatten(_)
Flatten(ss) == IF ss = <<>> THEN <<>> ELSE Head(ss) \o Flatten(Tail(ss))

MapSeq(s, F(_)) == [i \in DOMAIN s |-> F(s[i])]

-----------------------------------------------------------------------------
(* IR expressions (numba.ir: Const, Var, Global, Arg, FreeVar, Expr) *)

Const(v)      == [op |-> "const", cval |-> v]
ConstTuple(t) == [op |-> "const", ctuple |-> t]
Var(n)        == [op |-> "var", name |-> n]
Global(n)     == [op |-> "global", gvalue |-> n]
Arg(i)        == [op |-> "arg", index |-> i]
FreeVar(i)    == [op |-> "freevar", index |-> i]
Call(f, a, kw) == [op |-> "call", func |-> f, args |-> a, kws |-> kw]
MakeFunction(c, clo, d) ==
    [op |-> "make_function", code |-> c, closure |-> clo, defaults |-> d]
BuildTuple(it) == [op |-> "build_tuple", items |-> it]
BuildList(it)  == [op |-> "build_list", items |-> it]
Cast(v)        == [op |-> "cast", value |-> v]
Getattr(v, a)  == [op |-> "getattr", value |-> v, attr |-> a]
Getiter(v)     == [op |-> "getiter", value |-> v]
Iternext(v)    == [op |-> "iternext", value |-> v]
PairFirst(v)   == [op |-> "pair_first", value |-> v]
PairSecond(v)  == [op |-> "pair_second", value |-> v]
Binop(f, l, r) == [op |-> "binop", fn |-> f, lhs |-> l, rhs |-> r]
Getitem(v, i)  == [op |-> "getitem", value |-> v, gindex |-> i]

(* IR statements.  In a loaded program an Assign holds the identity of    *)
(* its value; in program text (below) it holds the expression itself.     *)
Assign(t, e)   == [k |-> "assign", target |-> t, value |-> e]
Jump(l)        == [k |-> "jump", label |-> l]
Branch(c, t, f) == [k |-> "branch", cond |-> c, truebr |-> t, falsebr |-> f]
Return(v)      == [k |-> "return", retval |-> v]
Del(n)         == [k |-> "del", delname |-> n]
SetItem(t, i, v) == [k |-> "setitem", starget |-> t, sindex |-> i, svalue |-> v]

IsAssign(s) == s.k = "assign"

(* The variables an expression reads, for replace_vars. *)
RenameIn(e, f(_)) ==
    CASE e.op = "var" -> Var(f(e.name))
      [] e.op = "call" ->
            Call(f(e.func), MapSeq(e.args, f),
                 [i \in DOMAIN e.kws |-> <<e.kws[i][1], f(e.kws[i][2])>>])
      [] e.op = "make_function" ->
            MakeFunction(e.code, IF e.closure = "" THEN "" ELSE f(e.closure),
                         e.defaults)
      [] e.op \in {"build_tuple", "build_list"} ->
            [e EXCEPT !.items = MapSeq(e.items, f)]
      [] e.op \in {"cast", "getattr", "getiter", "iternext", "pair_first",
                   "pair_second"} -> [e EXCEPT !.value = f(e.value)]
      [] e.op = "binop" -> Binop(e.fn, f(e.lhs), f(e.rhs))
      [] e.op = "getitem" -> Getitem(f(e.value), f(e.gindex))
      [] OTHER -> e

RenameStmt(s, f(_)) ==
    CASE s.k = "assign" -> [s EXCEPT !.target = f(s.target)]
      [] s.k = "branch" -> [s EXCEPT !.cond = f(s.cond)]
      [] s.k = "return" -> Return(f(s.retval))
      [] s.k = "del" -> Del(f(s.delname))
      [] s.k = "setitem" -> SetItem(f(s.starget), f(s.sindex), f(s.svalue))
      [] OTHER -> s

-----------------------------------------------------------------------------
(* Loading program text: the frontend translator.  Expression objects     *)
(* are created in label order, statement order; the definitions table     *)
(* gets every assignment's value appended under its target.               *)

NAssigns(body) == Cardinality({i \in DOMAIN body : IsAssign(body[i])})

\* The values of a sequence of assignments.
ValuesOf(assigns) == [i \in DOMAIN assigns |-> assigns[i].value]

\* A block's statements with every assignment's value replaced by the
\* identity of the object created for it (base: the identities in use).
LoadBody(body, base) ==
    [i \in DOMAIN body |->
        IF IsAssign(body[i])
        THEN Assign(body[i].target,
                    base + Cardinality({j \in 1..i : IsAssign(body[j])}))
        ELSE body[i]]

LoadCons(blk, exprs, rest) ==
    [blocks |-> <<blk>> \o rest.blocks, exprs |-> exprs \o rest.exprs]

RECURSIVE LoadFrom(_, _, _)
\* text: label -> [body, scope]; labels: labels still to load
LoadFrom(text, labels, base) ==
    IF labels = <<>> THEN [blocks |-> <<>>, exprs |-> <<>>]
    ELSE LoadCons([body |-> LoadBody(text[Head(labels)].body, base),
                   scope |-> text[Head(labels)].scope],
                  ValuesOf(SelectSeq(text[Head(labels)].body, IsAssign)),
                  LoadFrom(text, Tail(labels),
                           base + NAssigns(text[Head(labels)].body)))

LoadIndex(text, labels, r) ==
    [blocks |-> [l \in DOMAIN text |->
                    r.blocks[CHOOSE i \in DOMAIN labels : labels[i] = l]],
     exprs |-> r.exprs]

\* The blocks (label -> [body, scope]) and the new objects of a program text.
Load(text, base) ==
    LoadIndex(text, SortedSeq(DOMAIN text),
              LoadFrom(text, SortedSeq(DOMAIN text), base))

AllStmtsIn(blks, labels) ==
    Flatten([i \in DOMAIN labels |-> blks[labels[i]].body])

\* All statements of a block map, in label order.
AllStmts(blks) == AllStmtsIn(blks, SortedSeq(DOMAIN blks))

\* definitions[name] of a defaultdict(list)
DefsOf(defs, n) == IF n \in DOMAIN defs THEN defs[n] ELSE <<>>

\* definitions[name].append(id) on a defaultdict(list)
DefAppend(defs, n, id) ==
    IF n \in DOMAIN defs THEN [defs EXCEPT ![n] = Append(@, id)]
    ELSE defs @@ (n :> <<id>>)

\* _add_definitions(func_ir, block)
RECURSIVE AddDefinitions(_, _)
AddDefinitions(defs, body) ==
    IF body = <<>> THEN defs
    ELSE IF IsAssign(Head(body))
         THEN AddDefinitions(DefAppend(defs, Head(body).target,
                                       Head(body).value), Tail(body))
         ELSE AddDefinitions(defs, Tail(body))

\* The definitions table the frontend builds for freshly loaded blocks.
BuildDefinitions(blks) == AddDefinitions(<<>>, AllStmts(blks))

-----------------------------------------------------------------------------
(* Definition lookup.                                                      *)

\* func_ir.get_definition(name): follows variable-to-variable copies to the
\* defining object; KeyError when a name on the way has no definition or
\* more than one.  lhs is the last variable of the chain (lhs_only=True).
RECURSIVE GetDefinition(_, _, _)
GetDefinition(defs, hp, name) ==
    LET ds == DefsOf(defs, name)
    IN  IF Len(ds) # 1 THEN [ok |-> FALSE, id |-> 0, lhs |-> name]
        ELSE IF hp[ds[1]].op = "var"
             THEN GetDefinition(defs, hp, hp[ds[1]].name)
             ELSE [ok |-> TRUE, id |-> ds[1], lhs |-> name]

-----------------------------------------------------------------------------
(* inline_closure_call, steps 1 to 4: work on the callee's blocks.         *)

\* add_offset_to_labels(callee_blocks, offset)
AddOffsetToLabels(blks, off) ==
    [l \in {m + off : m \in DOMAIN blks} |->
        [blks[l - off] EXCEPT !.body =
            [i \in DOMAIN @ |->
                CASE @[i].k = "jump" -> Jump(@[i].label + off)
                  [] @[i].k = "branch" ->
                        Branch(@[i].cond, @[i].truebr + off, @[i].falsebr + off)
                  [] OTHER -> @[i]]]]

\* _get_all_scopes(blocks)
GetAllScopes(blks) == {blks[l].scope : l \in DOMAIN blks}

\* mk_unique_var(name) with the counter at n
MkUniqueVar(name, n) == name \o "." \o ToString(n)

\* (mutant) the test on co_freevars is inverted
RenamedLocals_Inverted(localvars, co_freevars) ==
    SelectSeq(localvars, LAMBDA v : v \in Range(co_freevars))

\* The local variables the renaming covers: all but the free variables.
RenamedLocals(localvars, co_freevars) ==
    SelectSeq(localvars, LAMBDA v : v \notin Range(co_freevars))

\* var_dict of step 2: old name -> new name, the counter starting at n0
VarDict(localvars, co_freevars, n0) ==
    LET rl == RenamedLocals(localvars, co_freevars)
    IN  [v \in Range(rl) |->
            MkUniqueVar(v, n0 + (CHOOSE i \in DOMAIN rl : rl[i] = v) - 1)]

\* replace_vars(callee_blocks, var_dict): statements of the callee blocks
ReplaceVarsBlocks(blks, var_dict) ==
    LET f(n) == IF n \in DOMAIN var_dict THEN var_dict[n] ELSE n
    IN  [l \in DOMAIN blks |->
            [blks[l] EXCEPT !.body = [i \in DOMAIN @ |-> RenameStmt(@[i], f)]]]

\* replace_vars(callee_blocks, var_dict): the callee's expression objects,
\* which are the objects from base + 1 on
ReplaceVarsHeap(hp, base, var_dict) ==
    LET f(n) == IF n \in DOMAIN var_dict THEN var_dict[n] ELSE n
    IN  [i \in DOMAIN hp |-> IF i > base THEN RenameIn(hp[i], f) ELSE hp[i]]

\* The identities of the values of the callee's assignments
AssignedIds(blks) ==
    {s.value : s \in {t \in Range(AllStmts(blks)) : IsAssign(t)}}

\* step 3: the argument list built from the call and the defaults.
\* [err, args]: args are the objects that replace the placeholders.
BuildArgs(call_expr, callee, defs, hp) ==
    LET args == [i \in DOMAIN call_expr.args |-> Var(call_expr.args[i])]
        d == callee.defaults
    IN  CASE d.kind = "none" -> [err |-> "", args |-> args]
          [] d.kind = "tuple" ->
                [err |-> "", args |-> args \o MapSeq(d.items, Var)]
          [] d.kind = "var" ->
                LET r == GetDefinition(defs, hp, d.name)
                IN  IF ~r.ok THEN [err |-> "KeyError", args |-> args]
                    ELSE IF ~(hp[r.id].op = "const"
                              /\ "ctuple" \in DOMAIN hp[r.id])
                    THEN [err |-> "AssertionError", args |-> args]
                    ELSE [err |-> "",
                          args |-> args \o MapSeq(hp[r.id].ctuple, Const)]
          \* the else branch formats the unbound local `defaults`
          [] OTHER -> [err |-> "UnboundLocalError", args |-> args]

\* _replace_args_with / _replace_freevars: every assignment of the callee
\* whose value is a placeholder of kind op gets args[index] as its value.
\* (The placeholder object is referenced by that statement alone, so the
\* statement's new value is written over it.)
PlaceholderIds(blks, hp, op) == {id \in AssignedIds(blks) : hp[id].op = op}

ReplaceIds(ids, hp, args) ==
    IF \E id \in ids : ~(hp[id].index < Len(args))
    THEN [err |-> "AssertionError", heap |-> hp]
    ELSE [err |-> "",
          heap |-> [i \in DOMAIN hp |->
                      IF i \in ids THEN args[hp[i].index + 1] ELSE hp[i]]]

ReplacePlaceholders(blks, hp, op, args) ==
    ReplaceIds(PlaceholderIds(blks, hp, op), hp, args)

-----------------------------------------------------------------------------
(* inline_closure_call, steps 5 to 7: split the caller, merge the callee.  *)

\* _replace_returns on one block whose last statement is a Return: the
\* Return becomes target = <returned variable>, followed by a jump; a cast
\* whose target is the returned variable becomes a copy of its operand.
\* new_id: the identity of the Var object the new assignment holds.
ReturnBody(body, target, return_label, new_id) ==
    [i \in 1..(Len(body) + 1) |->
        IF i = Len(body) THEN Assign(target, new_id)
        ELSE IF i = Len(body) + 1 THEN Jump(return_label)
        ELSE body[i]]

CastsOf(body, hp, ret) ==
    {body[j].value : j \in {i \in 1..(Len(body) - 1) :
                              /\ IsAssign(body[i])
                              /\ hp[body[i].value].op = "cast"
                              /\ body[i].target = ret}}

UncastHeap(hp, casts) ==
    [j \in DOMAIN hp |-> IF j \in casts THEN Var(hp[j].value) ELSE hp[j]]

ReturnHeap(body, hp) ==
    UncastHeap(Append(hp, Var(body[Len(body)].retval)),
               CastsOf(body, hp, body[Len(body)].retval))

\* _replace_returns(callee_blocks, target, return_label); labels: the
\* callee labels still to visit.  The code asserts that a Return is the
\* last statement of its block.
RECURSIVE ReplaceReturns(_, _, _, _, _)
ReplaceReturns(blks, hp, labels, target, return_label) ==
    IF labels = <<>> THEN [blocks |-> blks, heap |-> hp]
    ELSE IF blks[Head(labels)].body # <<>>
            /\ blks[Head(labels)].body[Len(blks[Head(labels)].body)].k = "return"
    THEN ReplaceReturns(
            [blks EXCEPT ![Head(labels)].body =
                ReturnBody(@, target, return_label, Len(hp) + 1)],
            ReturnHeap(blks[Head(labels)].body, hp),
            Tail(labels), target, return_label)
    ELSE ReplaceReturns(blks, hp, Tail(labels), target, return_label)

\* step 7, the definitions of the callee blocks in topological order
RECURSIVE AddAllDefinitions(_, _, _)
AddAllDefinitions(defs, blks, topo) ==
    IF topo = <<>> THEN defs
    ELSE AddAllDefinitions(AddDefinitions(defs, blks[Head(topo)].body),
                           blks, Tail(topo))

\* func_ir.blocks[label] = block for every callee block, then the result
InsertBlocks(blks, new) ==
    [l \in DOMAIN blks \cup DOMAIN new |->
        IF l \in DOMAIN new THEN new[l] ELSE blks[l]]

\* (mutant) the offset is the caller's maximum label itself
LabelOffset_NoGap(blks) == Max(DOMAIN blks)

\* step 1: the offset added to the callee's labels
LabelOffset(blks) == Max(DOMAIN blks) + 1

\* step 5: the caller's block map after the split at statement i of label
SplitCaller(blks, label, i, new_label, min_label) ==
    LET block == blks[label]
        new_block == [body |-> SubSeq(block.body, i + 1, Len(block.body)),
                      scope |-> block.scope]
        cut == [block EXCEPT !.body =
                    Append(SubSeq(block.body, 1, i - 1), Jump(min_label))]
    IN  InsertBlocks(blks, (new_label :> new_block) @@ (label :> cut))

-----------------------------------------------------------------------------
(* Code objects of closures: what get_ir_of_code (run_frontend) returns.   *)
(* text: the blocks; localvars: the variables of the callee's scope;       *)
(* topo: find_topo_order of the blocks.                                    *)

\* lambda: 7
CodeConst ==
    [text |-> (0 :> [body |-> <<Assign("$const0.1", Const(7)),
                                Assign("$0.2", Cast("$const0.1")),
                                Return("$0.2")>>, scope |-> "callee"]),
     localvars |-> <<"$const0.1", "$0.2">>, co_freevars |-> <<>>,
     topo |-> <<0>>]

\* lambda k: k
CodeIdent ==
    [text |-> (0 :> [body |-> <<Assign("k", Arg(0)),
                                Assign("$0.1", Var("k")),
                                Assign("$0.2", Cast("$0.1")),
                                Return("$0.2")>>, scope |-> "callee"]),
     localvars |-> <<"k", "$0.1", "$0.2">>, co_freevars |-> <<>>,
     topo |-> <<0>>]

\* lambda a, b, c: (a, b, c)
CodeArgs3 ==
    [text |-> (0 :> [body |-> <<Assign("a", Arg(0)),
                                Assign("b", Arg(1)),
                                Assign("c", Arg(2)),
                                Assign("$0.4", BuildTuple(<<"a", "b", "c">>)),
                                Assign("$0.5", Cast("$0.4")),
                                Return("$0.5")>>, scope |-> "callee"]),
     localvars |-> <<"a", "b", "c", "$0.4", "$0.5">>, co_freevars |-> <<>>,
     topo |-> <<0>>]

\* lambda: (lambda: 7)
CodeMk ==
    [text |-> (0 :> [body |-> <<Assign("$0.1", MakeFunction("const", "",
                                                    [kind |-> "none"])),
                                Assign("$0.2", Cast("$0.1")),
                                Return("$0.2")>>, scope |-> "callee"]),
     localvars |-> <<"$0.1", "$0.2">>, co_freevars |-> <<>>,
     topo |-> <<0>>]

\* lambda: x    (x captured)
CodeFree ==
    [text |-> (0 :> [body |-> <<Assign("$0.1", FreeVar(0)),
                                Assign("$0.2", Cast("$0.1")),
                                Return("$0.2")>>, scope |-> "callee"]),
     localvars |-> <<"$0.1", "$0.2">>, co_freevars |-> <<"x">>,
     topo |-> <<0>>]

\* def g(): return g()    (g captured)
CodeRec ==
    [text |-> (0 :> [body |-> <<Assign("$0.1", FreeVar(0)),
                                Assign("$0.2", Call("$0.1", <<>>, <<>>)),
                                Assign("$0.3", Cast("$0.2")),
                                Return("$0.3")>>, scope |-> "callee"]),
     localvars |-> <<"$0.1", "$0.2", "$0.3">>, co_freevars |-> <<"g">>,
     topo |-> <<0>>]

\* lambda k: 1 if k else 2
CodeBranch ==
    [text |-> (0 :> [body |-> <<Assign("k", Arg(0)),
                                Assign("$0.1", Var("k")),
                                Branch("$0.1", 6, 10)>>, scope |-> "callee"])
           @@ (6 :> [body |-> <<Assign("$const6.1", Const(1)),
                                Assign("$6.2", Cast("$const6.1")),
                                Return("$6.2")>>, scope |-> "callee"])
           @@ (10 :> [body |-> <<Assign("$const10.1", Const(2)),
                                 Assign("$10.2", Cast("$const10.1")),
                                 Return("$10.2")>>, scope |-> "callee"]),
     localvars |-> <<"k", "$0.1", "$const6.1", "$6.2", "$const10.1", "$10.2">>,
     co_freevars |-> <<>>, topo |-> <<0, 6, 10>>]

\* def h(): nonlocal x; x = 1; return x     (x captured and assigned)
CodeNonlocal ==
    [text |-> (0 :> [body |-> <<Assign("$const0.1", Const(1)),
                                Assign("x", Var("$const0.1")),
                                Assign("$0.2", FreeVar(0)),
                                Assign("$0.3", Cast("$0.2")),
                                Return("$0.3")>>, scope |-> "callee"]),
     localvars |-> <<"$const0.1", "x", "$0.2", "$0.3">>,
     co_freevars |-> <<"x">>, topo |-> <<0>>]

\* a malformed callee IR: its two blocks belong to different scopes
CodeTwoScopes ==
    [text |-> (0 :> [body |-> <<Jump(4)>>, scope |-> "callee"])
           @@ (4 :> [body |-> <<Assign("$const4.1", Const(3)),
                                Assign("$4.2", Cast("$const4.1")),
                                Return("$4.2")>>, scope |-> "callee2"]),
     localvars |-> <<"$const4.1", "$4.2">>, co_freevars |-> <<>>,
     topo |-> <<0, 4>>]

\* get_ir_of_code(callee.code)
GetIrOfCode(code) ==
    CASE code = "const" -> CodeConst
      [] code = "ident" -> CodeIdent
      [] code = "args3" -> CodeArgs3
      [] code = "mk" -> CodeMk
      [] code = "free" -> CodeFree
      [] code = "rec" -> CodeRec
      [] code = "branch" -> CodeBranch
      [] code = "nonlocal" -> CodeNonlocal
      [] code = "twoscopes" -> CodeTwoScopes

-----------------------------------------------------------------------------
(* inline_closure_call(block, i, callee)                                   *)

\* st: [blocks, definitions, heap, scope, max_label, unique_var].  The
\* working record w of a call adds: pos (label, i), instr, callee, ir (the
\* callee's code), base (identities in use before), cb (callee blocks),
\* var_dict, args, new_label, new_blocks, err.

\* callee_ir = self.get_ir_of_code(callee.code)
InlineStart(st, label, i, callee_id) ==
    [err |-> "", label |-> label, i |-> i,
     instr |-> st.blocks[label].body[i],
     callee |-> st.heap[callee_id],
     ir |-> GetIrOfCode(st.heap[callee_id].code),
     base |-> Len(st.heap), pre |-> st,
     cb |-> <<>>, var_dict |-> <<>>, args |-> <<>>, new_label |-> 0,
     new_blocks |-> <<>>, callee_labels |-> {}] @@ st

\* 1. relabel callee_ir by adding an offset; reset ir_utils._max_label
RelabelWith(w, loaded) ==
    [w EXCEPT !.heap = w.heap \o loaded.exprs,
              !.cb = AddOffsetToLabels(loaded.blocks, LabelOffset(w.blocks))]

RelabelDone(w) ==
    [w EXCEPT !.max_label = Max(DOMAIN w.cb), !.callee_labels = DOMAIN w.cb]

InlineRelabel(w) == RelabelDone(RelabelWith(w, Load(w.ir.text, w.base)))

\* 2. rename all local variables in callee_ir with new locals created in
\*    func_ir (scope.define raises when the name exists)
RenameWith(w, var_dict) ==
    IF Cardinality(GetAllScopes(w.cb)) # 1
    THEN [w EXCEPT !.err = "AssertionError"]
    ELSE IF {var_dict[v] : v \in DOMAIN var_dict} \cap w.scope # {}
    THEN [w EXCEPT !.err = "RedefinedError"]
    ELSE [w EXCEPT !.var_dict = var_dict,
                   !.scope = @ \cup {var_dict[v] : v \in DOMAIN var_dict},
                   !.unique_var = @ + Cardinality(DOMAIN var_dict),
                   !.cb = ReplaceVarsBlocks(@, var_dict),
                   !.heap = ReplaceVarsHeap(@, w.base, var_dict)]

InlineRename(w) ==
    IF w.err # "" THEN w
    ELSE RenameWith(w, VarDict(w.ir.localvars, w.ir.co_freevars, w.unique_var))

\* 3. replace formal parameters with actual arguments
ArgsWith(w, ba) ==
    IF ba.err # "" THEN [w EXCEPT !.err = ba.err]
    ELSE [w EXCEPT !.args = ba.args]

ArgsReplaced(w, r) ==
    IF r.err # "" THEN [w EXCEPT !.err = r.err] ELSE [w EXCEPT !.heap = r.heap]

ArgsReplace(w) ==
    IF w.err # "" THEN w
    ELSE ArgsReplaced(w, ReplacePlaceholders(w.cb, w.heap, "arg", w.args))

InlineArgs(w) ==
    IF w.err # "" THEN w
    ELSE ArgsReplace(ArgsWith(w, BuildArgs(w.pre.heap[w.instr.value], w.callee,
                                           w.pre.definitions, w.pre.heap)))

\* 4. replace freevar with actual closure var
ClosureWith(w, clo) ==
    IF ~clo.ok THEN [w EXCEPT !.err = "KeyError"]
    ELSE IF w.pre.heap[clo.id].op # "build_tuple"
    THEN [w EXCEPT !.err = "AssertionError"]
    ELSE IF Len(w.ir.co_freevars) # Len(w.pre.heap[clo.id].items)
    THEN [w EXCEPT !.err = "AssertionError"]
    ELSE ArgsReplaced(w, ReplacePlaceholders(w.cb, w.heap, "freevar",
                            MapSeq(w.pre.heap[clo.id].items, Var)))

InlineFreevars(w) ==
    IF w.err # "" \/ w.callee.closure = "" THEN w
    ELSE ClosureWith(w, GetDefinition(w.pre.definitions, w.pre.heap,
                                      w.callee.closure))

\* 5. split caller blocks into two; new_label = next_label()
InlineSplit(w) ==
    IF w.err # "" THEN w
    ELSE [w EXCEPT !.max_label = @ + 1, !.new_label = w.max_label + 1,
                   !.blocks = SplitCaller(@, w.label, w.i, w.max_label + 1,
                                          Min(DOMAIN w.cb))]

\* 6. replace Return with assignment to LHS, and remove the old definition
\*    of instr.target
ReturnsWith(w, rr) ==
    [w EXCEPT !.cb = rr.blocks, !.heap = rr.heap,
              !.definitions = IF w.instr.target \in DOMAIN @
                              THEN [@ EXCEPT ![w.instr.target] = <<>>]
                              ELSE @]

InlineReturns(w) ==
    IF w.err # "" THEN w
    ELSE ReturnsWith(w, ReplaceReturns(w.cb, w.heap, SortedSeq(DOMAIN w.cb),
                                       w.instr.target, w.new_label))

\* find_topo_order(callee_blocks), on the relabelled blocks
TopoOrder(w) ==
    [j \in DOMAIN w.ir.topo |-> w.ir.topo[j] + LabelOffset(w.pre.blocks)]

\* 7. insert all new blocks, and add back definitions
MergeWith(w, topo, cb) ==
    [w EXCEPT !.definitions = AddAllDefinitions(@, cb, topo),
              !.blocks = InsertBlocks(@, cb),
              !.new_blocks = <<w.new_label>> \o topo]

InlineMerge(w) ==
    IF w.err # "" THEN w
    ELSE MergeWith(w, TopoOrder(w),
                   [l \in DOMAIN w.cb |->
                       [w.cb[l] EXCEPT !.scope = w.pre.blocks[w.label].scope]])

\* When a fatal error ends the call, the callee's objects (the ones created
\* after base) are unreachable from func_ir: they are dropped.
InlineResult(w) ==
    IF w.err = "" THEN w ELSE [w EXCEPT !.heap = SubSeq(@, 1, w.base)]

\* (mutant) the caller is split before the callee has been validated
InlineClosureCall_SplitFirst(st, label, i, callee_id) ==
    InlineResult(InlineMerge(InlineReturns(InlineFreevars(InlineArgs(
        InlineRename(InlineSplit(InlineRelabel(
            InlineStart(st, label, i, callee_id)))))))))

InlineClosureCall(st, label, i, callee_id) ==
    InlineResult(InlineMerge(InlineReturns(InlineSplit(InlineFreevars(
        InlineArgs(InlineRename(InlineRelabel(
            InlineStart(st, label, i, callee_id)))))))))

-----------------------------------------------------------------------------
(* The functions given to the pass (closure inlining).                     *)

Blk(body) == [body |-> body, scope |-> "caller"]

\* The default value declared for parameter j (0-based) of the closure of
\* the "args" functions: the constant 20 + j.
DefaultValue(j) == 20 + j

\* def f(): h = lambda a, b=21, c=22: (a, b, c); return h(a1, .., ak)
\* d: the number of trailing parameters with a default; kind: how the
\* bytecode hands the defaults to make_function (a tuple of variables,
\* or one variable holding a constant tuple).
ArgsText(d, k, kind) ==
    LET first == 3 - d
        dvar(j) == "d" \o ToString(j)
        defs_tuple == [j \in 1..d |-> Assign(dvar(first + j - 1),
                                             Const(DefaultValue(first + j - 1)))]
        defs_var == <<Assign("$defaults",
                        ConstTuple([j \in 1..d |-> DefaultValue(first + j - 1)]))>>
        defaults == IF d = 0 THEN [kind |-> "none"]
                    ELSE IF kind = "tuple"
                    THEN [kind |-> "tuple",
                          items |-> [j \in 1..d |-> dvar(first + j - 1)]]
                    ELSE [kind |-> "var", name |-> "$defaults"]
        actual(j) == "a" \o ToString(j)
    IN  (0 :> Blk(<<Assign("a1", Const(11)), Assign("a2", Const(12)),
                    Assign("a3", Const(13))>>
                  \o (IF d = 0 THEN <<>>
                      ELSE IF kind = "tuple" THEN defs_tuple ELSE defs_var)
                  \o <<Assign("h", MakeFunction("args3", "", defaults)),
                       Assign("g", Call("h", [j \in 1..k |-> actual(j)], <<>>)),
                       Assign("$r", Cast("g")),
                       Return("$r")>>))

NoDefaults == [kind |-> "none"]

ProgText(id) ==
    CASE id = "later_ident" ->
            (0 :> Blk(<<Assign("h", MakeFunction("ident", "", NoDefaults)),
                        Assign("inner", MakeFunction("const", "", NoDefaults)),
                        Assign("g", Call("h", <<"inner">>, <<>>)),
                        Jump(10)>>))
         @@ (10 :> Blk(<<Assign("y", Call("g", <<>>, <<>>)),
                         Assign("$r", Cast("y")), Return("$r")>>))
      [] id = "later_mk" ->
            (0 :> Blk(<<Assign("h", MakeFunction("mk", "", NoDefaults)),
                        Assign("g", Call("h", <<>>, <<>>)),
                        Jump(10)>>))
         @@ (10 :> Blk(<<Assign("y", Call("g", <<>>, <<>>)),
                         Assign("$r", Cast("y")), Return("$r")>>))
      [] id = "same_ident" ->
            (0 :> Blk(<<Assign("h", MakeFunction("ident", "", NoDefaults)),
                        Assign("inner", MakeFunction("const", "", NoDefaults)),
                        Assign("g", Call("h", <<"inner">>, <<>>)),
                        Assign("y", Call("g", <<>>, <<>>)),
                        Assign("$r", Cast("y")), Return("$r")>>))
      [] id = "two_sites" ->
            (0 :> Blk(<<Assign("h", MakeFunction("branch", "", NoDefaults)),
                        Assign("a1", Const(1)),
                        Assign("y1", Call("h", <<"a1">>, <<>>)),
                        Assign("y2", Call("h", <<"y1">>, <<>>)),
                        Assign("$r", Cast("y2")), Return("$r")>>))
      [] id = "two_blocks" ->
            (0 :> Blk(<<Assign("h", MakeFunction("ident", "", NoDefaults)),
                        Assign("k", Const(5)),
                        Assign("y1", Call("h", <<"k">>, <<>>)),
                        Jump(10)>>))
         @@ (10 :> Blk(<<Assign("y2", Call("h", <<"k">>, <<>>)),
                         Assign("$r", Cast("y2")), Return("$r")>>))
      [] id = "free" ->
            (0 :> Blk(<<Assign("x", Const(5)),
                        Assign("$clo", BuildTuple(<<"x">>)),
                        Assign("h", MakeFunction("free", "$clo", NoDefaults)),
                        Assign("g", Call("h", <<>>, <<>>)),
                        Assign("$r", Cast("g")), Return("$r")>>))
      [] id = "nonlocal" ->
            (0 :> Blk(<<Assign("x", Const(5)),
                        Assign("$clo", BuildTuple(<<"x">>)),
                        Assign("h", MakeFunction("nonlocal", "$clo", NoDefaults)),
                        Assign("g", Call("h", <<>>, <<>>)),
                        Assign("y", Call("h", <<>>, <<>>)),
                        Assign("$r", Cast("y")), Return("$r")>>))
      [] id = "rec" ->
            (0 :> Blk(<<Assign("$clo", BuildTuple(<<"g">>)),
                        Assign("g", MakeFunction("rec", "$clo", NoDefaults)),
                        Assign("y", Call("g", <<>>, <<>>)),
                        Assign("$r", Cast("y")), Return("$r")>>))
      [] id = "calls_other" ->
            (0 :> Blk(<<Assign("f", MakeFunction("const", "", NoDefaults)),
                        Assign("$clo", BuildTuple(<<"f">>)),
                        Assign("g", MakeFunction("rec", "$clo", NoDefaults)),
                        Assign("y", Call("g", <<>>, <<>>)),
                        Assign("$r", Cast("y")), Return("$r")>>))
      [] id = "twoscopes" ->
            (0 :> Blk(<<Assign("h1", MakeFunction("const", "", NoDefaults)),
                        Assign("h2", MakeFunction("twoscopes", "", NoDefaults)),
                        Assign("y1", Call("h1", <<>>, <<>>)),
                        Assign("y2", Call("h2", <<>>, <<>>)),
                        Assign("$r", Cast("y2")), Return("$r")>>))
      [] id = "bad_defaults" ->
            (0 :> Blk(<<Assign("a1", Const(11)),
                        Assign("h", MakeFunction("args3", "", [kind |-> "other"])),
                        Assign("g", Call("h", <<"a1">>, <<>>)),
                        Assign("$r", Cast("g")), Return("$r")>>))
      [] id = "clo_arity" ->
            (0 :> Blk(<<Assign("x", Const(5)), Assign("z", Const(6)),
                        Assign("$clo", BuildTuple(<<"x", "z">>)),
                        Assign("h1", MakeFunction("ident", "", NoDefaults)),
                        Assign("h", MakeFunction("free", "$clo", NoDefaults)),
                        Assign("y1", Call("h1", <<"x">>, <<>>)),
                        Assign("g", Call("h", <<>>, <<>>)),
                        Assign("$r", Cast("g")), Return("$r")>>))

ProgIds == {"later_ident", "later_mk", "same_ident", "two_sites",
            "two_blocks", "free", "nonlocal", "rec", "calls_other",
            "twoscopes",
            "bad_defaults", "clo_arity"}

InlineInputs ==
    {[prog |-> "args", d |-> d, k |-> k, kind |-> kind] :
        d \in 0..3, k \in 0..3, kind \in {"tuple", "var"}}
    \cup {[prog |-> id, d |-> 0, k |-> 0, kind |-> "tuple"] : id \in ProgIds}

InputText(in) ==
    IF in.prog = "args" THEN ArgsText(in.d, in.k, in.kind) ELSE ProgText(in.prog)

\* Every variable name of loaded blocks: the caller's scope.
NamesOf(blks, hp) ==
    LET stmts == Range(AllStmts(blks))
    IN  {s.target : s \in {t \in stmts : IsAssign(t)}}
        \cup {s.retval : s \in {t \in stmts : t.k = "return"}}

-----------------------------------------------------------------------------
(* run(): the closure inlining worklist (lines 40-59).                     *)

MaxInline == 4

\* The statements of a block that run() inlines: assignments of a call
\* whose callee's definition is a make_function expression.
IsInlinable(blks, defs, hp, label, i) ==
    LET instr == blks[label].body[i]
    IN  /\ IsAssign(instr)
        /\ hp[instr.value].op = "call"
        /\ LET func_def == GetDefinition(defs, hp, hp[instr.value].func)
           IN  func_def.ok /\ hp[func_def.id].op = "make_function"

Candidates(blks, defs, hp, label) ==
    {i \in DOMAIN blks[label].body : IsInlinable(blks, defs, hp, label, i)}

InitInline ==
    \E in \in InlineInputs : \E ld \in {Load(InputText(in), 0)} :
            /\ input = in
            /\ phase = "inline"
            /\ blocks = ld.blocks
            /\ heap = ld.exprs
            /\ definitions = BuildDefinitions(ld.blocks)
            /\ scope = NamesOf(ld.blocks, ld.exprs)
            /\ work_list = SortedSeq(DOMAIN ld.blocks)
            /\ max_label = Max(DOMAIN ld.blocks)
            /\ unique_var = 0
            /\ error = ""
            /\ n_inlined = 0
            /\ last = [op |-> "init"]
            /\ modified = FALSE
            /\ cfg = <<>> /\ visited = <<>> /\ todo = <<>> /\ temps = 0
            /\ machine = <<>> /\ trace = <<>>

\* One iteration of `while work_list` in which the scan finds no call to
\* inline.
ScanBlock ==
    /\ phase = "inline" /\ error = "" /\ work_list # <<>>
    /\ LET label == work_list[Len(work_list)]
       IN  /\ Candidates(blocks, definitions, heap, label) = {}
           /\ work_list' = SubSeq(work_list, 1, Len(work_list) - 1)
           /\ last' = [op |-> "scan", label |-> label]
    /\ UNCHANGED <<input, phase, blocks, definitions, heap, scope, max_label,
                   unique_var, error, n_inlined, modified>>
    /\ UNCHANGED loopvars

\* One iteration of `while work_list` in which the scan reaches an
\* inlinable call: inline_closure_call, then the new blocks are queued and
\* the scan of the block stops; a fatal error leaves run().
InlineCall ==
    /\ phase = "inline" /\ error = "" /\ work_list # <<>>
    /\ n_inlined < MaxInline
    /\ LET label == work_list[Len(work_list)]
           cand == Candidates(blocks, definitions, heap, label)
       IN  /\ cand # {}
           /\ \E r \in {InlineClosureCall(
                          [blocks |-> blocks, definitions |-> definitions,
                           heap |-> heap, scope |-> scope,
                           max_label |-> max_label,
                           unique_var |-> unique_var],
                          label, Min(cand),
                          GetDefinition(definitions, heap,
                              heap[blocks[label].body[Min(cand)].value].func).id)} :
                  /\ blocks' = r.blocks
                  /\ definitions' = r.definitions
                  /\ heap' = r.heap
                  /\ scope' = r.scope
                  /\ max_label' = r.max_label
                  /\ unique_var' = r.unique_var
                  /\ error' = r.err
                  /\ work_list' = SubSeq(work_list, 1, Len(work_list) - 1)
                                      \o r.new_blocks
                  /\ n_inlined' = IF r.err = "" THEN n_inlined + 1
                                  ELSE n_inlined
                  /\ modified' = (modified \/ r.err = "")
                  /\ last' = [op |-> IF r.err = "" THEN "inline" ELSE "fatal",
                              label |-> label, i |-> r.i, pre |-> r.pre,
                              var_dict |-> r.var_dict, args |-> r.args,
                              callee_labels |-> r.callee_labels,
                              new_label |-> r.new_label,
                              callee |-> r.callee, base |-> r.base,
                              target |-> r.instr.target]
    /\ UNCHANGED <<input, phase>>
    /\ UNCHANGED loopvars

\* The worklist is empty: the inlining phase of run() ends.
InlineDone ==
    /\ phase = "inline" /\ error = "" /\ work_list = <<>>
    /\ phase' = "inlined"
    /\ UNCHANGED <<input, blocks, definitions, heap, scope, work_list,
                   max_label, unique_var, error, n_inlined, last, modified>>
    /\ UNCHANGED loopvars

NextInline == ScanBlock \/ InlineCall \/ InlineDone

SpecInline == InitInline /\ [][NextInline]_vars

-----------------------------------------------------------------------------
(* Properties of the closure inlining (checked under SpecInline).          *)

\* C1: when the inlining phase of run() has ended (the worklist is empty),
\* no block holds an assignment of a call whose callee resolves to a
\* make_function expression.
C1_NoInlinableCallLeft ==
    phase = "inlined" =>
        \A l \in DOMAIN blocks : Candidates(blocks, definitions, heap, l) = {}

\* C6: after every inline_closure_call the labels are unique: the callee's
\* new labels are above every label the caller had, the successor block's
\* label is none of them, and the insertions overwrite no entry of the
\* block map (every other block of the caller is still there, unchanged).
C6_LabelsUnique ==
    last.op = "inline" =>
        /\ \A l \in last.callee_labels :
                \A m \in DOMAIN last.pre.blocks : l > m
        /\ last.new_label \notin DOMAIN last.pre.blocks \cup last.callee_labels
        /\ DOMAIN blocks = DOMAIN last.pre.blocks \cup last.callee_labels
                                \cup {last.new_label}
        /\ Cardinality(DOMAIN blocks) =
                Cardinality(DOMAIN last.pre.blocks)
                    + Cardinality(last.callee_labels) + 1
        /\ \A m \in DOMAIN last.pre.blocks \ {last.label} :
                blocks[m] = last.pre.blocks[m]

\* a second (or later) inlining whose callee has several blocks
C6_Witness ==
    /\ last.op = "inline" /\ n_inlined >= 2
    /\ Cardinality(last.callee_labels) > 1

\* The parameter names of the closure of the "args" functions, by index.
ParamName(j) == <<"a", "b", "c">>[j + 1]

\* The object that stands for the declared default of parameter j.
ExpectedDefault(in, j) ==
    IF in.kind = "tuple" THEN Var("d" \o ToString(j))
    ELSE Const(DefaultValue(j))

\* C7: a closure with 3 parameters, the last d with defaults, called with
\* k positional arguments (3 - d <= k <= 3): parameter j gets the j-th
\* argument for j < k and its own declared default for k <= j < 3.
C7_DefaultsFillMissing ==
    (input.prog = "args" /\ last.op = "inline") =>
        \A j \in 0..2 :
            heap[definitions[last.var_dict[ParamName(j)]][1]] =
                IF j < input.k THEN Var("a" \o ToString(j + 1))
                ELSE ExpectedDefault(input, j)

\* The variables assigned in the blocks merged by the last inlining.
MergedTargets ==
    {s.target : s \in {t \in UNION {Range(blocks[l].body) :
                                      l \in last.callee_labels} : IsAssign(t)}}

\* C8: after an inlining every callee local that is not a free variable
\* has a new name that the caller's scope did not hold, the name is defined
\* in the caller's scope, its definitions are objects of the inlined body
\* only, and the merged blocks assign no variable but the new names, the
\* call's target and the free variables.
C8_Hygiene ==
    last.op = "inline" =>
        /\ DOMAIN last.var_dict =
                Range(GetIrOfCode(last.callee.code).localvars)
                    \ Range(GetIrOfCode(last.callee.code).co_freevars)
        /\ \A v \in DOMAIN last.var_dict :
                /\ last.var_dict[v] \notin last.pre.scope
                /\ last.var_dict[v] \in scope
                /\ DefsOf(last.pre.definitions, last.var_dict[v]) = <<>>
                /\ \A id \in Range(DefsOf(definitions, last.var_dict[v])) :
                        id > last.base
        /\ MergedTargets \subseteq
                {last.var_dict[v] : v \in DOMAIN last.var_dict}
                    \cup {last.target}
                    \cup Range(GetIrOfCode(last.callee.code).co_freevars)

\* the same closure inlined at a second call site, in a caller that has a
\* variable named like a local of the callee
C8_Witness ==
    /\ last.op = "inline" /\ n_inlined = 2 /\ input.prog = "two_blocks"
    /\ "k" \in last.pre.scope /\ "k" \in DOMAIN last.var_dict

\* C9: a fatal error of inline_closure_call leaves run() (nothing runs
\* after it, the phase never completes) and the caller's block map,
\* statements, definitions table and objects are the ones the failed call
\* found.
C9_FatalLeavesCaller ==
    /\ phase = "inlined" => error = ""
    /\ error # "" =>
        /\ last.op = "fatal"
        /\ blocks = last.pre.blocks
        /\ definitions = last.pre.definitions
        /\ heap = last.pre.heap

\* a fatal error at a candidate met after an earlier inlining succeeded
C9_Witness == error # "" /\ n_inlined >= 1 /\ scope # last.pre.scope

-----------------------------------------------------------------------------
(* The control flow graph and its natural loops: compute_cfg_from_blocks,  *)
(* cfg.loops(), cfg.predecessors(), cfg.in_loops().                        *)

IsExpr(e) == e.op \notin {"const", "var", "global", "arg", "freevar"}

Terminator(body) == body[Len(body)]

Successors(blks, l) ==
    IF blks[l].body = <<>> THEN {}
    ELSE CASE Terminator(blks[l].body).k = "jump" ->
                {Terminator(blks[l].body).label}
           [] Terminator(blks[l].body).k = "branch" ->
                {Terminator(blks[l].body).truebr,
                 Terminator(blks[l].body).falsebr}
           [] OTHER -> {}

Predecessors(blks, l) == {m \in DOMAIN blks : l \in Successors(blks, m)}

\* The labels reached from the labels of `frontier` along edges of next
\* (label -> set of labels) without entering a label of `avoid`.
RECURSIVE Closure(_, _, _, _)
Closure(next, frontier, seen, avoid) ==
    IF frontier = {} THEN seen
    ELSE Closure(next,
                 (UNION {next[l] : l \in frontier}) \ (seen \cup frontier \cup avoid),
                 seen \cup frontier, avoid)

\* d dominates n: every path from the entry label to n passes d
Dominates(succs, entry, d, n) ==
    d = n \/ n \notin Closure(succs, {entry} \ {d}, {}, {d})

\* The tails of the back edges into header h
BackEdgeTails(succs, entry, h) ==
    {t \in DOMAIN succs : h \in succs[t] /\ Dominates(succs, entry, h, t)}

LoopOfBody(succs, preds, h, body) ==
    [header |-> h, body |-> body,
     entries |-> (UNION {preds[n] : n \in body}) \ body,
     exits |-> (UNION {succs[n] : n \in body}) \ body]

\* The natural loop of header h: the header and the blocks that reach a
\* back edge's tail without passing the header.
LoopOf(succs, preds, entry, h) ==
    LoopOfBody(succs, preds, h,
               {h} \cup Closure(preds, BackEdgeTails(succs, entry, h) \ {h},
                                {}, {h}))

CfgOf(succs, preds, entry) ==
    [succs |-> succs, preds |-> preds,
     loops |-> [h \in {x \in DOMAIN succs :
                          BackEdgeTails(succs, entry, x) # {}} |->
                   LoopOf(succs, preds, entry, h)]]

\* compute_cfg_from_blocks(func_ir.blocks)
ComputeCfg(blks) ==
    CfgOf([l \in DOMAIN blks |-> Successors(blks, l)],
          [l \in DOMAIN blks |-> Predecessors(blks, l)],
          Min(DOMAIN blks))

\* the headers of cfg.in_loops(label)
InLoops(g, label) == {h \in DOMAIN g.loops : label \in g.loops[h].body}

\* sorted(sized_loops, key=size, reverse=True): the headers by decreasing
\* body size, headers of equal size in the order of `order`.
\* (mutant) the loops are taken in the order of the analysis
SortLoops_Unsorted(g, order) == order

RECURSIVE SortLoops(_, _)
SortLoops(g, order) ==
    IF order = <<>> THEN <<>>
    ELSE <<order[Min({i \in DOMAIN order :
                \A j \in DOMAIN order :
                    Cardinality(g.loops[order[j]].body)
                        <= Cardinality(g.loops[order[i]].body)})]>>
         \o SortLoops(g, SelectSeq(order, LAMBDA h :
                h # order[Min({i \in DOMAIN order :
                    \A j \in DOMAIN order :
                        Cardinality(g.loops[order[j]].body)
                            <= Cardinality(g.loops[order[i]].body)})]))

-----------------------------------------------------------------------------
(* Guarded pattern matching: require, guard, _get_definition and the       *)
(* finders.  A finder's result has ok = FALSE where the code raises        *)
(* GuardException.                                                         *)

\* _find_numpy_call(func_ir, expr) under guard: the attribute name, ""
\* when the guard returns None.  e is the expression object.
NumpyAttr(callee_def, module_def, hp) ==
    IF callee_def.ok /\ hp[callee_def.id].op = "getattr"
       /\ module_def.ok /\ hp[module_def.id].op = "global"
       /\ hp[module_def.id].gvalue = "np"
    THEN hp[callee_def.id].attr ELSE ""

FindNumpyCallee(defs, hp, callee_def) ==
    IF callee_def.ok /\ hp[callee_def.id].op = "getattr"
    THEN NumpyAttr(callee_def,
                   GetDefinition(defs, hp, hp[callee_def.id].value), hp)
    ELSE ""

FindNumpyCall(defs, hp, e) ==
    IF e.op # "call" THEN ""
    ELSE FindNumpyCallee(defs, hp, GetDefinition(defs, hp, e.func))

\* guard(_find_unsafe_empty_inferred, func_ir, expr) is true.  d is the
\* result of the lookup that gave expr.
UnsafeEmptyCallee(hp, callee_def) ==
    callee_def.ok /\ hp[callee_def.id].op = "global"
    /\ hp[callee_def.id].gvalue = "unsafe_empty_inferred"

FindUnsafeEmptyInferred(defs, hp, id) ==
    /\ hp[id].op = "call"
    /\ UnsafeEmptyCallee(hp, GetDefinition(defs, hp, hp[id].func))

\* _find_iter_range(func_ir, range_iter_var) under guard.  zero: the start
\* is the literal 0 of the one argument form; start, stop: variable names;
\* func: the Global object of range.
NoRange == [ok |-> FALSE, zero |-> FALSE, start |-> "", stop |-> "", func |-> 0]

IterRangeArgs(defs, hp, range_def, func_def) ==
    IF ~(func_def.ok /\ hp[func_def.id].op = "global"
         /\ hp[func_def.id].gvalue = "range")
    THEN NoRange
    ELSE IF Len(range_def.args) = 1
    THEN IF GetDefinition(defs, hp, range_def.args[1]).ok
         THEN [ok |-> TRUE, zero |-> TRUE, start |-> "",
               stop |-> range_def.args[1], func |-> func_def.id]
         ELSE NoRange
    ELSE IF Len(range_def.args) = 2
    THEN IF GetDefinition(defs, hp, range_def.args[1]).ok
            /\ GetDefinition(defs, hp, range_def.args[2]).ok
         THEN [ok |-> TRUE, zero |-> FALSE,
               start |-> GetDefinition(defs, hp, range_def.args[1]).lhs,
               stop |-> GetDefinition(defs, hp, range_def.args[2]).lhs,
               func |-> func_def.id]
         ELSE NoRange
    ELSE NoRange

IterRangeCall(defs, hp, range_def) ==
    IF ~(range_def.ok /\ hp[range_def.id].op = "call") THEN NoRange
    ELSE IterRangeArgs(defs, hp, hp[range_def.id],
                       GetDefinition(defs, hp, hp[range_def.id].func))

IterRangeIter(defs, hp, range_iter_def) ==
    IF ~(range_iter_def.ok /\ hp[range_iter_def.id].op = "getiter")
    THEN NoRange
    ELSE IterRangeCall(defs, hp,
                       GetDefinition(defs, hp, hp[range_iter_def.id].value))

FindIterRange(defs, hp, range_iter_var) ==
    IterRangeIter(defs, hp, GetDefinition(defs, hp, range_iter_var))

\* _find_arraycall(func_ir, block).  The scan's state s: raised (a
\* GuardException left the scan), err (a fatal error did), list_var,
\* array_var, index (array_stmt_index, a position of body), kws, dead
\* (list_var_dead_after_array_call).
ArraycallStart ==
    [raised |-> FALSE, err |-> "", list_var |-> "", array_var |-> "",
     index |-> 0, kws |-> <<>>, dead |-> FALSE]

\* instr is an Assign: array_var = array(list_var) is remembered
ArraycallAssign(defs, hp, instr, i, s) ==
    IF FindNumpyCall(defs, hp, hp[instr.value]) # "array" THEN s
    ELSE IF hp[instr.value].args = <<>> THEN [s EXCEPT !.err = "IndexError"]
    ELSE [s EXCEPT !.list_var = hp[instr.value].args[1],
                   !.array_var = instr.target,
                   !.index = i,
                   !.kws = hp[instr.value].kws]

\* instr is a SetItem met before any list variable: array_var[..] = list_var
ArraycallSetItem(defs, hp, instr, i, s, array_def) ==
    IF ~array_def.ok \/ ~FindUnsafeEmptyInferred(defs, hp, array_def.id)
    THEN [s EXCEPT !.raised = TRUE, !.list_var = instr.svalue,
                   !.array_var = instr.starget]
    ELSE [s EXCEPT !.list_var = instr.svalue, !.array_var = instr.starget,
                   !.index = i, !.kws = <<>>]

RECURSIVE FindArraycallFrom(_, _, _, _, _)
FindArraycallFrom(defs, hp, body, i, s) ==
    IF i > Len(body) \/ s.raised \/ s.err # "" THEN s
    ELSE CASE body[i].k = "del" ->
                IF s.list_var # "" /\ s.array_var # ""
                   /\ body[i].delname = s.list_var
                THEN [s EXCEPT !.dead = TRUE]
                ELSE FindArraycallFrom(defs, hp, body, i + 1, s)
           [] body[i].k = "assign" ->
                FindArraycallFrom(defs, hp, body, i + 1,
                    ArraycallAssign(defs, hp, body[i], i, s))
           [] body[i].k = "setitem" /\ s.list_var = "" ->
                FindArraycallFrom(defs, hp, body, i + 1,
                    ArraycallSetItem(defs, hp, body[i], i, s,
                        GetDefinition(defs, hp, body[i].starget)))
           [] OTHER -> s

\* require(array_var and list_var_dead_after_array_call)
ArraycallResult(s) ==
    [ok |-> ~s.raised /\ s.err = "" /\ s.array_var # "" /\ s.dead,
     err |-> s.err, list_var |-> s.list_var, index |-> s.index,
     kws |-> s.kws]

FindArraycall(defs, hp, body) ==
    ArraycallResult(FindArraycallFrom(defs, hp, body, 1, ArraycallStart))

\* _new_definition(func_ir, var, value, loc) for a new object `value`: the
\* definitions of var become [value]; the Assign is appended to w.stmts.
NewDefinition(w, name, value) ==
    [w EXCEPT !.heap = Append(@, value),
              !.definitions = (name :> <<Len(w.heap) + 1>>) @@ @,
              !.stmts = Append(@, Assign(name, Len(w.heap) + 1))]

\* _new_definition for a value that is an existing object
NewDefinitionOf(w, name, id) ==
    [w EXCEPT !.definitions = (name :> <<id>>) @@ @,
              !.stmts = Append(@, Assign(name, id))]

\* scope.make_temp(loc): the n-th temporary of the scope
MakeTemp(n) == "$" \o ToString(n)

-----------------------------------------------------------------------------
(* _inline_arraycall(func_ir, cfg, visited, loop, enable_prange)           *)

\* st: [blocks, definitions, heap, temps].  The working record w of a call
\* adds the locals of the function; w.res is "" while the call runs,
\* "mismatch" when a GuardException left it, "rewritten" when it returned
\* True, and the name of any other exception that left it.
ArrayStart(st, g, vis, loop, enable_prange) ==
    [res |-> "", pre |-> st, g |-> g, vis |-> vis, loop |-> loop,
     enable_prange |-> enable_prange,
     exit_block |-> 0, list_var |-> "", array_call_index |-> 0,
     array_kws |-> <<>>, dtype_def |-> 0, dtype_mod_def |-> 0,
     list_var_def |-> 0, list_def |-> 0, appends |-> <<>>,
     iter_vars |-> <<>>, iter_first_vars |-> <<>>, entry |-> 0,
     stmts |-> <<>>, removed |-> <<>>, range_def |-> NoRange,
     index_var |-> "", size_var |-> "", size_tuple_var |-> "",
     array_var |-> "", array_obj |-> 0, empty_func |-> ""] @@ st

Mismatch(w) == [w EXCEPT !.res = "mismatch"]

\* lines 442-444: one loop exit, holding the array call
ExitWith(w, exit_block, found) ==
    IF found.err # "" THEN [w EXCEPT !.res = found.err]
    ELSE IF ~found.ok THEN Mismatch(w)
    ELSE [w EXCEPT !.exit_block = exit_block, !.list_var = found.list_var,
                   !.array_call_index = found.index,
                   !.array_kws = found.kws]

CheckExit(w) ==
    IF Cardinality(w.loop.exits) # 1 THEN Mismatch(w)
    ELSE ExitWith(w, Min(w.loop.exits),
                  FindArraycall(w.definitions, w.heap,
                                w.blocks[Min(w.loop.exits)].body))

\* array_kws['dtype'] of dict(expr.kws), "" when the key is absent
DtypeOf(kws) ==
    IF \E i \in DOMAIN kws : kws[i][1] = "dtype"
    THEN kws[Max({i \in DOMAIN kws : kws[i][1] = "dtype"})][2]
    ELSE ""

\* lines 449-455: the dtype argument is an attribute of a known module
DtypeWith(w, dtype_def, dtype_mod_def) ==
    IF ~dtype_mod_def.ok THEN Mismatch(w)
    ELSE [w EXCEPT !.dtype_def = dtype_def.id,
                   !.dtype_mod_def = dtype_mod_def.id]

DtypeDef(w, dtype_def) ==
    IF ~(dtype_def.ok /\ w.heap[dtype_def.id].op = "getattr")
    THEN Mismatch(w)
    ELSE DtypeWith(w, dtype_def,
                   GetDefinition(w.definitions, w.heap,
                                 w.heap[dtype_def.id].value))

CheckDtype(w) ==
    IF w.res # "" \/ DtypeOf(w.array_kws) = "" THEN w
    ELSE DtypeDef(w, GetDefinition(w.definitions, w.heap,
                                   DtypeOf(w.array_kws)))

\* lines 457-462: the list is defined by a build_list, maybe under a cast
ListIs(w, list_var_def) ==
    IF ~(list_var_def.ok /\ w.heap[list_var_def.id].op = "build_list")
    THEN Mismatch(w)
    ELSE [w EXCEPT !.list_var_def = list_var_def.id]

ListDef(w, list_var_def) ==
    IF ~list_var_def.ok THEN Mismatch(w)
    ELSE IF w.heap[list_var_def.id].op = "cast"
    THEN ListIs(w, GetDefinition(w.definitions, w.heap,
                                 w.heap[list_var_def.id].value))
    ELSE ListIs(w, list_var_def)

CheckList(w) ==
    IF w.res # "" THEN w
    ELSE ListDef(w, GetDefinition(w.definitions, w.heap, w.list_var))

\* lines 467-472: the blocks of the loop that are in visited loops only,
\* in the order the body is iterated (ascending labels)
ScannedLabels(w) ==
    SelectSeq(SortedSeq(w.loop.body),
              LAMBDA l : InLoops(w.g, l) \subseteq Range(w.vis))

\* The positions <<label, i>> of the assignments of a call in the labels
CallsIn(blks, hp, labels) ==
    Flatten([j \in DOMAIN labels |->
        SelectSeq([i \in DOMAIN blks[labels[j]].body |-> <<labels[j], i>>],
                  LAMBDA p : /\ IsAssign(blks[p[1]].body[p[2]])
                             /\ hp[blks[p[1]].body[p[2]].value].op = "call")])

\* lines 479-486 for the call at position pos: func_def is the definition
\* of the callee, list_def the one of the object the attribute is read of
AppendMatch(w, pos, list_def) ==
    IF ~list_def.ok THEN Mismatch(w)
    ELSE IF list_def.id = w.list_var_def
    THEN [w EXCEPT !.list_def = list_def.id, !.appends = Append(@, pos)]
    ELSE [w EXCEPT !.list_def = list_def.id]

AppendCall(w, pos, func_def) ==
    IF ~func_def.ok THEN Mismatch(w)
    ELSE IF w.heap[func_def.id].op = "getattr"
            /\ w.heap[func_def.id].attr = "append"
    THEN AppendMatch(w, pos, GetDefinition(w.definitions, w.heap,
                                           w.heap[func_def.id].value))
    ELSE w

RECURSIVE ScanAppends(_, _, _)
ScanAppends(w, calls, j) ==
    IF j > Len(calls) \/ w.res # "" THEN w
    ELSE ScanAppends(
            AppendCall(w, calls[j],
                GetDefinition(w.definitions, w.heap,
                    w.heap[w.blocks[calls[j][1]].body[calls[j][2]].value].func)),
            calls, j + 1)

\* lines 466-489: exactly one append on the list in the scanned blocks
OneAppend(w) ==
    IF w.res # "" THEN w
    ELSE IF Len(w.appends) # 1 THEN Mismatch(w) ELSE w

FindAppends(w) ==
    IF w.res # "" THEN w
    ELSE OneAppend(ScanAppends(w, CallsIn(w.blocks, w.heap, ScannedLabels(w)), 1))

\* (mutant) the predecessors of the header are not looked at
CheckPreds_Skipped(w) == w

\* lines 497-499: the header's predecessors are the entries and the block
\* of the append
CheckPreds(w) ==
    IF w.res # "" THEN w
    ELSE IF w.g.preds[w.loop.header] # w.loop.entries \cup {w.appends[1][1]}
    THEN Mismatch(w) ELSE w

\* lines 505-513 for one assignment of the header
IterStmt(w, stmt) ==
    IF w.heap[stmt.value].op = "iternext"
    THEN IF ~GetDefinition(w.definitions, w.heap, w.heap[stmt.value].value).ok
         THEN Mismatch(w)
         ELSE [w EXCEPT !.iter_vars = Append(@, w.heap[stmt.value].value)]
    ELSE IF w.heap[stmt.value].op = "pair_first"
    THEN [w EXCEPT !.iter_first_vars = Append(@, stmt.target)]
    ELSE w

RECURSIVE ScanIterators(_, _, _)
ScanIterators(w, assigns, j) ==
    IF j > Len(assigns) \/ w.res # "" THEN w
    ELSE ScanIterators(IterStmt(w, assigns[j]), assigns, j + 1)

\* lines 502-516: one iterator in the loop header
OneIterator(w) ==
    IF w.res # "" THEN w
    ELSE IF Len(w.iter_vars) = 1 /\ Len(w.iter_first_vars) = 1 THEN w
    ELSE Mismatch(w)

FindIterator(w) ==
    IF w.res # "" THEN w
    ELSE OneIterator(ScanIterators(w,
            SelectSeq(w.blocks[w.loop.header].body, IsAssign), 1))

\* line 523: only one loop entry
CheckEntries(w) ==
    IF w.res # "" THEN w
    ELSE IF Cardinality(w.loop.entries) # 1 THEN Mismatch(w)
    ELSE [w EXCEPT !.entry = Min(w.loop.entries)]

-----------------------------------------------------------------------------
(* _inline_arraycall, after the last check: the rewrite.                   *)

\* lines 530-542: the statements of the entry block before its terminator,
\* without the list construction and the copies of removed variables
IsRemoved(w, stmt) ==
    /\ IsAssign(stmt)
    /\ \/ stmt.value = w.list_def
       \/ /\ w.heap[stmt.value].op = "var"
          /\ w.heap[stmt.value].name \in Range(w.removed)

RECURSIVE FilterEntryFrom(_, _, _)
FilterEntryFrom(w, body, i) ==
    IF i > Len(body) - 1 THEN w
    ELSE FilterEntryFrom(
            IF IsRemoved(w, body[i])
            THEN [w EXCEPT !.removed = Append(@, body[i].target)]
            ELSE [w EXCEPT !.stmts = Append(@, body[i])],
            body, i + 1)

FilterEntry(w) ==
    IF w.res # "" THEN w
    ELSE FilterEntryFrom(w, w.blocks[w.entry].body, 1)

\* (mutant) the counter of the index starts at 0
IndexWith_FromZero(w, range_def) ==
    IF range_def.ok /\ range_def.zero
    THEN [w EXCEPT !.range_def = range_def, !.temps = @ + 1,
                   !.index_var = w.iter_first_vars[1]]
    ELSE NewDefinition([w EXCEPT !.range_def = range_def, !.temps = @ + 1,
                                 !.index_var = MakeTemp(w.temps + 1)],
                       MakeTemp(w.temps + 1), Const(0))

\* lines 549-556: the index variable
IndexWith(w, range_def) ==
    IF range_def.ok /\ range_def.zero
    THEN [w EXCEPT !.range_def = range_def, !.temps = @ + 1,
                   !.index_var = w.iter_first_vars[1]]
    ELSE NewDefinition([w EXCEPT !.range_def = range_def, !.temps = @ + 1,
                                 !.index_var = MakeTemp(w.temps + 1)],
                       MakeTemp(w.temps + 1), Const(-1))

DefineIndex(w) ==
    IF w.res # "" THEN w
    ELSE IndexWith(w, FindIterRange(w.definitions, w.heap, w.iter_vars[1]))

\* lines 568-570: the range global becomes prange
MarkPrange(w) ==
    IF w.enable_prange
    THEN [w EXCEPT !.heap[w.range_def.func] = Global("prange")]
    ELSE w

\* lines 559-578: the size of the loop iterator
SizeOfRange(w) ==
    NewDefinition(MarkPrange([w EXCEPT !.temps = @ + 1,
                                       !.size_var = MakeTemp(w.temps + 1)]),
                  MakeTemp(w.temps + 1),
                  IF w.range_def.zero THEN Var(w.range_def.stop)
                  ELSE Binop("-", w.range_def.stop, w.range_def.start))

SizeOfIter(w) ==
    NewDefinition(
        NewDefinition([w EXCEPT !.temps = @ + 2,
                                !.size_var = MakeTemp(w.temps + 1)],
                      MakeTemp(w.temps + 2), Global("range_iter_len")),
        MakeTemp(w.temps + 1),
        Call(MakeTemp(w.temps + 2), <<w.iter_vars[1]>>, <<>>))

DefineSize(w) ==
    IF w.res # "" THEN w
    ELSE IF w.range_def.ok THEN SizeOfRange(w) ELSE SizeOfIter(w)

\* lines 580-582: size_tuple_var = (size_var,)
DefineSizeTuple(w) ==
    IF w.res # "" THEN w
    ELSE NewDefinition([w EXCEPT !.temps = @ + 1,
                                 !.size_tuple_var = MakeTemp(w.temps + 1)],
                       MakeTemp(w.temps + 1), BuildTuple(<<w.size_var>>))

\* lines 584-606: the array allocation.  array_var is the second of two
\* temporaries, then come empty_func, dtype_mod_var and dtype_var.
\* array_obj is the Var object of array_var used as a value later on.
AllocNames(w, n) ==
    [w EXCEPT !.temps = @ + n,
              !.array_var = MakeTemp(w.temps + 2),
              !.empty_func = MakeTemp(w.temps + 3)]

AllocCall(w, kws) ==
    NewDefinition(w, w.array_var, Call(w.empty_func, <<w.size_tuple_var>>, kws))

AllocDtype(w) ==
    AllocCall(
        NewDefinition(
            NewDefinition(
                NewDefinitionOf(w, MakeTemp(w.temps - 1), w.dtype_mod_def),
                MakeTemp(w.temps),
                Getattr(MakeTemp(w.temps - 1), w.heap[w.dtype_def].attr)),
            w.empty_func, Global("empty")),
        <<<<"dtype", MakeTemp(w.temps)>>>>)

AllocInferred(w) ==
    AllocCall(NewDefinition(w, w.empty_func, Global("unsafe_empty_inferred")),
              <<>>)

ArrayObject(w) ==
    [w EXCEPT !.heap = Append(@, Var(w.array_var)),
              !.array_obj = Len(w.heap) + 1]

DefineArray(w) ==
    IF w.res # "" THEN w
    ELSE IF w.dtype_def # 0 /\ w.dtype_mod_def # 0
    THEN ArrayObject(AllocDtype(AllocNames(w, 5)))
    ELSE ArrayObject(AllocInferred(AllocNames(w, 3)))

\* lines 609-615: the removed variables are defined as the array, the
\* terminator is added back, the entry block gets the new statements
RECURSIVE AddBackFrom(_, _)
AddBackFrom(w, j) ==
    IF j > Len(w.removed) THEN w
    ELSE AddBackFrom(NewDefinitionOf(w, w.removed[j], w.array_obj), j + 1)

SetEntry(w) ==
    [w EXCEPT !.blocks[w.entry].body =
                Append(w.stmts, Terminator(w.pre.blocks[w.entry].body))]

ModifyEntry(w) ==
    IF w.res # "" THEN w ELSE SetEntry(AddBackFrom(w, 1))

\* lines 618-630: index_var = iter_first_var - start at the head of the
\* block the header branches to
OffsetIndex(w, terminator) ==
    IF terminator.k # "branch" THEN [w EXCEPT !.res = "AssertionError"]
    ELSE [w EXCEPT
            !.heap = Append(@, Binop("-", w.iter_first_vars[1],
                                     w.range_def.start)),
            !.definitions = (w.index_var :> <<Len(w.heap) + 1>>) @@ @,
            !.blocks[terminator.truebr].body =
                <<Assign(w.index_var, Len(w.heap) + 1)>> \o @]

\* lines 632-647: index_var is incremented at the end of the header
SetHeader(w, terminator) ==
    [w EXCEPT !.blocks[w.loop.header].body = Append(w.stmts, terminator)]

CountIndex(w, body) ==
    SetHeader(
        NewDefinition(
            NewDefinition(
                NewDefinition(
                    [w EXCEPT !.temps = @ + 2,
                              !.stmts = SubSeq(body, 1, Len(body) - 1)],
                    MakeTemp(w.temps + 2), Const(1)),
                MakeTemp(w.temps + 1),
                Binop("+", w.index_var, MakeTemp(w.temps + 2))),
            w.index_var, Var(MakeTemp(w.temps + 1))),
        Terminator(body))

ModifyLoop(w) ==
    IF w.res # "" THEN w
    ELSE IF w.range_def.ok
    THEN IF w.range_def.zero THEN w
         ELSE OffsetIndex(w, Terminator(w.blocks[w.loop.header].body))
    ELSE CountIndex(w, w.blocks[w.loop.header].body)

\* lines 650-654: the append becomes an indexed store
StoreFor(w, append_stmt) ==
    [w EXCEPT !.blocks[w.appends[1][1]].body =
        [i \in DOMAIN @ |->
            IF @[i] = append_stmt
            THEN SetItem(w.array_var, w.index_var,
                         w.heap[append_stmt.value].args[1])
            ELSE @[i]]]

ReplaceAppend(w) ==
    IF w.res # "" THEN w
    ELSE IF w.heap[w.pre.blocks[w.appends[1][1]].body[w.appends[1][2]].value].args
                = <<>>
    THEN [w EXCEPT !.res = "IndexError"]
    ELSE StoreFor(w, w.pre.blocks[w.appends[1][1]].body[w.appends[1][2]])

\* lines 657-663: a = array(b) becomes a = array_var
ReplaceArrayCall(w) ==
    IF w.res # "" THEN w
    ELSE IF IsAssign(w.blocks[w.exit_block].body[w.array_call_index])
            /\ IsExpr(w.heap[w.blocks[w.exit_block].body[w.array_call_index].value])
    THEN [w EXCEPT
            !.res = "rewritten",
            !.definitions =
                (w.blocks[w.exit_block].body[w.array_call_index].target
                    :> <<w.array_obj>>) @@ @,
            !.blocks[w.exit_block].body[w.array_call_index].value = w.array_obj]
    ELSE [w EXCEPT !.res = "rewritten"]

\* What the call leaves of func_ir, and how it ended.
ArraycallOutcome(w) ==
    [res |-> w.res, blocks |-> w.blocks, definitions |-> w.definitions,
     heap |-> w.heap, temps |-> w.temps, pre |-> w.pre, loop |-> w.loop,
     range_def |-> w.range_def, size_var |-> w.size_var,
     index_var |-> w.index_var, array_var |-> w.array_var,
     appends |-> w.appends, removed |-> w.removed, vis |-> w.vis,
     list_var_def |-> w.list_var_def, list_def |-> w.list_def,
     entry |-> w.entry, exit_block |-> w.exit_block]

\* (mutant) the index variable is defined before the entries are counted
InlineArraycall_IndexFirst(st, g, vis, loop, enable_prange) ==
    ArraycallOutcome(ReplaceArrayCall(ReplaceAppend(ModifyLoop(ModifyEntry(
        DefineArray(DefineSizeTuple(DefineSize(FilterEntry(CheckEntries(
            DefineIndex(FindIterator(CheckPreds(FindAppends(CheckList(
                CheckDtype(CheckExit(
                    ArrayStart(st, g, vis, loop, enable_prange))))))))))))))))))

InlineArraycall(st, g, vis, loop, enable_prange) ==
    ArraycallOutcome(ReplaceArrayCall(ReplaceAppend(ModifyLoop(ModifyEntry(
        DefineArray(DefineSizeTuple(DefineSize(DefineIndex(FilterEntry(
            CheckEntries(FindIterator(CheckPreds(FindAppends(CheckList(
                CheckDtype(CheckExit(
                    ArrayStart(st, g, vis, loop, enable_prange))))))))))))))))))

-----------------------------------------------------------------------------
(* _fix_nested_array(func_ir)                                              *)

\* find_array_def(arr), given arr_def, the result of
\* func_ir.get_definition(arr): res is "ok" (id: the allocation), "guard"
\* (GuardException) or "KeyError" (the lookup is not guarded).
RECURSIVE FindArrayDefOf(_, _, _)
FindArrayDefOf(defs, hp, arr_def) ==
    IF ~arr_def.ok THEN [res |-> "KeyError", id |-> 0]
    ELSE IF ~IsExpr(hp[arr_def.id]) THEN [res |-> "guard", id |-> 0]
    ELSE IF FindUnsafeEmptyInferred(defs, hp, arr_def.id)
    THEN [res |-> "ok", id |-> arr_def.id]
    ELSE IF hp[arr_def.id].op = "getitem"
    THEN FindArrayDefOf(defs, hp,
                        GetDefinition(defs, hp, hp[arr_def.id].value))
    ELSE [res |-> "guard", id |-> 0]

FindArrayDef(defs, hp, arr) ==
    FindArrayDefOf(defs, hp, GetDefinition(defs, hp, arr))

\* fix_array_assign(stmt) under guard.  The result: res is "fixed" (True),
\* "guard" (None) or "KeyError"; heap is the objects afterwards.
FixOutcome(res, hp) == [res |-> res, heap |-> hp]

\* (mutant) the extra dimensions are put before the outer ones
FixApply_DimsFirst(hp, stmt, rhs_id, size_tuple_id, extra_dims, lhs_name) ==
    FixOutcome("fixed",
        [[hp EXCEPT ![size_tuple_id].items = extra_dims \o @]
            EXCEPT ![rhs_id] = Getitem(lhs_name.lhs, stmt.sindex)])

\* lines 736-744: the outer shape gets the extra dimensions and the inner
\* allocation becomes a read of the outer array
FixApply(hp, stmt, rhs_id, size_tuple_id, extra_dims, lhs_name) ==
    FixOutcome("fixed",
        [[hp EXCEPT ![size_tuple_id].items = @ \o extra_dims]
            EXCEPT ![rhs_id] = Getitem(lhs_name.lhs, stmt.sindex)])

\* lines 733-739
FixSizeTuple(defs, hp, stmt, rhs_id, extra_dims, size_tuple_def) ==
    IF ~(size_tuple_def.ok /\ hp[size_tuple_def.id].op = "build_tuple")
    THEN FixOutcome("guard", hp)
    ELSE FixApply(hp, stmt, rhs_id, size_tuple_def.id, extra_dims,
                  GetDefinition(defs, hp, stmt.starget))

\* lines 727-733: the dimensions of the inner array
FixDims(defs, hp, stmt, lhs_id, rhs_id, dim_def) ==
    IF ~(dim_def.ok /\ hp[dim_def.id].op = "build_tuple")
    THEN FixOutcome("guard", hp)
    ELSE IF \E j \in DOMAIN hp[dim_def.id].items :
                ~GetDefinition(defs, hp, hp[dim_def.id].items[j]).ok
    THEN FixOutcome("guard", hp)
    ELSE IF hp[lhs_id].args = <<>> THEN FixOutcome("IndexError", hp)
    ELSE FixSizeTuple(defs, hp, stmt, rhs_id,
            [j \in DOMAIN hp[dim_def.id].items |->
                GetDefinition(defs, hp, hp[dim_def.id].items[j]).lhs],
            GetDefinition(defs, hp, hp[lhs_id].args[1]))

\* lines 721, 724-727: rhs_def is an inference-deferred allocation
FixRhsIs(defs, hp, stmt, lhs_id, rhs_def) ==
    IF ~(rhs_def.ok /\ IsExpr(hp[rhs_def.id])
         /\ FindUnsafeEmptyInferred(defs, hp, rhs_def.id))
    THEN FixOutcome("guard", hp)
    ELSE IF hp[rhs_def.id].args = <<>> THEN FixOutcome("IndexError", hp)
    ELSE FixDims(defs, hp, stmt, lhs_id, rhs_def.id,
                 GetDefinition(defs, hp, hp[rhs_def.id].args[1]))

\* lines 719-723: the definition of the stored value, maybe under a cast
FixRhs(defs, hp, stmt, lhs_id, rhs_def) ==
    IF ~(rhs_def.ok /\ IsExpr(hp[rhs_def.id])) THEN FixOutcome("guard", hp)
    ELSE IF hp[rhs_def.id].op = "cast"
    THEN FixRhsIs(defs, hp, stmt, lhs_id,
                  GetDefinition(defs, hp, hp[rhs_def.id].value))
    ELSE FixRhsIs(defs, hp, stmt, lhs_id, rhs_def)

\* lines 715-719
FixLhs(defs, hp, stmt, lhs_def) ==
    IF lhs_def.res # "ok" THEN FixOutcome(lhs_def.res, hp)
    ELSE FixRhs(defs, hp, stmt, lhs_def.id,
                GetDefinition(defs, hp, stmt.svalue))

FixArrayAssign(defs, hp, stmt) ==
    IF stmt.k # "setitem" THEN FixOutcome("guard", hp)
    ELSE FixLhs(defs, hp, stmt, FindArrayDef(defs, hp, stmt.starget))

\* find_topo_order(func_ir.blocks): the labels of a function's blocks
\* follow the bytecode, loop bodies after their headers
FindTopoOrder(blks) == SortedSeq(DOMAIN blks)

\* lines 750-752 for the statement at position i of the block: a fixed
\* statement is removed from the list that is being iterated, so the
\* statement after it is not visited.  w: [blocks, heap, err, fixed,
\* steps]; steps records each fixed store with the heap it found and the
\* heap it left.
FixStep(w, label, i, r) ==
    IF r.res = "fixed"
    THEN [w EXCEPT !.heap = r.heap,
                   !.fixed = Append(@, w.blocks[label].body[i]),
                   !.steps = Append(@, [stmt |-> w.blocks[label].body[i],
                                        label |-> label, i |-> i,
                                        body |-> w.blocks[label].body,
                                        before |-> w.heap,
                                        after |-> r.heap]),
                   !.blocks[label].body =
                        SubSeq(@, 1, i - 1) \o SubSeq(@, i + 1, Len(@))]
    ELSE IF r.res = "guard" THEN w
    ELSE [w EXCEPT !.err = r.res]

RECURSIVE FixBlock(_, _, _, _)
FixBlock(w, defs, label, i) ==
    IF i > Len(w.blocks[label].body) \/ w.err # "" THEN w
    ELSE FixBlock(FixStep(w, label, i,
                          FixArrayAssign(defs, w.heap, w.blocks[label].body[i])),
                  defs, label, i + 1)

RECURSIVE FixBlocks(_, _, _)
FixBlocks(w, defs, topo) ==
    IF topo = <<>> \/ w.err # "" THEN w
    ELSE FixBlocks(FixBlock(w, defs, Head(topo), 1), defs, Tail(topo))

FixNestedArray(blks, defs, hp) ==
    FixBlocks([blocks |-> blks, heap |-> hp, err |-> "", fixed |-> <<>>,
               steps |-> <<>>],
              defs, FindTopoOrder(blks))

-----------------------------------------------------------------------------
(* The meaning of the IR: an interpreter of the statements, used to say    *)
(* what a function computes before and after the loop rewrite.             *)
(* m: [status, label, i, env, lists, arrays, iters, err, log].             *)

IntVal(n)   == [t |-> "int", n |-> n]
Fn(f)       == [t |-> "fn", f |-> f]
ListRef(r)  == [t |-> "list", ref |-> r]
ArrayRef(r) == [t |-> "array", ref |-> r]
IterRef(r)  == [t |-> "iter", ref |-> r]
Method(r)   == [t |-> "append", ref |-> r]
Pair(v, ok) == [t |-> "pair", first |-> v, valid |-> ok]
TupleOf(it) == [t |-> "tuple", items |-> it]
RangeOf(a, b, c) == [t |-> "range", start |-> a, stop |-> b, step |-> c]
Other(t)    == [t |-> t]

StartMachine(blks) ==
    [status |-> "run", label |-> Min(DOMAIN blks), i |-> 1, env |-> <<>>,
     lists |-> <<>>, arrays |-> <<>>, iters |-> <<>>, err |-> "",
     log |-> <<>>]

Lookup(m, n) == IF n \in DOMAIN m.env THEN m.env[n] ELSE Other("unbound")

Bind(m, n, v) == [m EXCEPT !.env = (n :> v) @@ @, !.i = @ + 1]

Fail(m, e) == [m EXCEPT !.status = "error", !.err = e]

Log(m, ev) == [m EXCEPT !.log = Append(@, ev)]

\* len(range(cur, stop, step)) for a positive step
RangeLen(cur, stop, step) ==
    IF stop <= cur THEN 0 ELSE ((stop - cur) + step - 1) \div step

IsInts(vs) == \A j \in DOMAIN vs : vs[j].t = "int"

\* range(...) called with the values vs
CallRange(m, n, vs) ==
    IF ~IsInts(vs) THEN Fail(m, "TypeError")
    ELSE IF Len(vs) = 1 THEN Bind(m, n, RangeOf(0, vs[1].n, 1))
    ELSE IF Len(vs) = 2 THEN Bind(m, n, RangeOf(vs[1].n, vs[2].n, 1))
    ELSE IF Len(vs) = 3 /\ vs[3].n > 0
    THEN Bind(m, n, RangeOf(vs[1].n, vs[2].n, vs[3].n))
    ELSE Fail(m, "TypeError")

\* np.array(list): an array of the list's items
CallArray(m, n, vs) ==
    IF Len(vs) # 1 \/ vs[1].t # "list" THEN Fail(m, "TypeError")
    ELSE Bind(Log([m EXCEPT !.arrays = Append(@,
                        [size |-> Len(m.lists[vs[1].ref]),
                         data |-> m.lists[vs[1].ref]])],
                  [ev |-> "array", len |-> Len(m.lists[vs[1].ref])]),
              n, ArrayRef(Len(m.arrays) + 1))

\* empty(shape) and unsafe_empty_inferred(shape) of one dimension: the
\* elements are not initialized; a negative size is an error
CallEmpty(m, n, vs) ==
    IF Len(vs) # 1 \/ vs[1].t # "tuple" \/ Len(vs[1].items) # 1
       \/ ~IsInts(vs[1].items)
    THEN Fail(m, "TypeError")
    ELSE IF vs[1].items[1].n < 0
    THEN Fail(Log(m, [ev |-> "alloc", size |-> vs[1].items[1].n]),
              "ValueError")
    ELSE Bind(Log([m EXCEPT !.arrays = Append(@,
                        [size |-> vs[1].items[1].n,
                         data |-> [j \in 1..vs[1].items[1].n |->
                                      Other("uninitialized")]])],
                  [ev |-> "alloc", size |-> vs[1].items[1].n]),
              n, ArrayRef(Len(m.arrays) + 1))

\* range_iter_len(it): the number of items the iterator has left
CallRangeIterLen(m, n, vs) ==
    IF Len(vs) # 1 \/ vs[1].t # "iter" THEN Fail(m, "TypeError")
    ELSE Bind(m, n, IntVal(RangeLen(m.iters[vs[1].ref].cur,
                                 m.iters[vs[1].ref].stop,
                                 m.iters[vs[1].ref].step)))

\* list.append(v)
CallAppend(m, n, f, vs) ==
    IF Len(vs) # 1 THEN Fail(m, "TypeError")
    ELSE Bind(Log([m EXCEPT !.lists[f.ref] = Append(@, vs[1])],
                  [ev |-> "append", list |-> f.ref, value |-> vs[1]]),
              n, Other("none"))

ExecCall(m, n, f, vs) ==
    CASE f.t = "append" -> CallAppend(m, n, f, vs)
      [] f.t = "fn" /\ f.f \in {"range", "prange"} -> CallRange(m, n, vs)
      [] f.t = "fn" /\ f.f = "array" -> CallArray(m, n, vs)
      [] f.t = "fn" /\ f.f \in {"empty", "unsafe_empty_inferred"} ->
            CallEmpty(m, n, vs)
      [] f.t = "fn" /\ f.f = "range_iter_len" -> CallRangeIterLen(m, n, vs)
      [] OTHER -> Fail(m, "TypeError")

ExecGetattr(m, n, v, attr) ==
    CASE v.t = "module" /\ attr = "array" -> Bind(m, n, Fn("array"))
      [] v.t = "module" -> Bind(m, n, Other("dtype"))
      [] v.t = "list" /\ attr = "append" -> Bind(m, n, Method(v.ref))
      [] OTHER -> Fail(m, "AttributeError")

ExecIternext(m, n, v) ==
    IF v.t # "iter" THEN Fail(m, "TypeError")
    ELSE IF m.iters[v.ref].cur < m.iters[v.ref].stop
    THEN Bind(Log([m EXCEPT !.iters[v.ref].cur = @ + m.iters[v.ref].step],
                  [ev |-> "next", value |-> IntVal(m.iters[v.ref].cur)]),
              n, Pair(IntVal(m.iters[v.ref].cur), TRUE))
    ELSE Bind(m, n, Pair(Other("none"), FALSE))

ExecBinop(m, n, fn, a, b) ==
    IF a.t # "int" \/ b.t # "int" THEN Fail(m, "TypeError")
    ELSE Bind(m, n, IntVal(CASE fn = "-" -> a.n - b.n
                          [] fn = "+" -> a.n + b.n
                          [] fn = "*" -> a.n * b.n))

\* The assignment n = e; args: the values of the function's arguments
ExecAssign(m, n, e, args) ==
    CASE e.op = "const" -> Bind(m, n, IntVal(e.cval))
      [] e.op = "var" -> Bind(m, n, Lookup(m, e.name))
      [] e.op = "cast" -> Bind(m, n, Lookup(m, e.value))
      [] e.op = "arg" -> Bind(m, n, IntVal(args[e.index + 1]))
      [] e.op = "global" ->
            Bind(m, n, IF e.gvalue = "np" THEN Other("module")
                       ELSE Fn(e.gvalue))
      [] e.op = "getattr" -> ExecGetattr(m, n, Lookup(m, e.value), e.attr)
      [] e.op = "call" ->
            ExecCall(m, n, Lookup(m, e.func),
                     [j \in DOMAIN e.args |-> Lookup(m, e.args[j])])
      [] e.op = "build_list" ->
            Bind([m EXCEPT !.lists = Append(@,
                        [j \in DOMAIN e.items |-> Lookup(m, e.items[j])])],
                 n, ListRef(Len(m.lists) + 1))
      [] e.op = "build_tuple" ->
            Bind(m, n, TupleOf([j \in DOMAIN e.items |->
                                    Lookup(m, e.items[j])]))
      [] e.op = "getiter" ->
            IF Lookup(m, e.value).t # "range" THEN Fail(m, "TypeError")
            ELSE Bind([m EXCEPT !.iters = Append(@,
                            [cur |-> Lookup(m, e.value).start,
                             stop |-> Lookup(m, e.value).stop,
                             step |-> Lookup(m, e.value).step])],
                      n, IterRef(Len(m.iters) + 1))
      [] e.op = "iternext" -> ExecIternext(m, n, Lookup(m, e.value))
      [] e.op = "pair_first" ->
            IF Lookup(m, e.value).t # "pair" THEN Fail(m, "TypeError")
            ELSE Bind(m, n, Lookup(m, e.value).first)
      [] e.op = "pair_second" ->
            IF Lookup(m, e.value).t # "pair" THEN Fail(m, "TypeError")
            ELSE Bind(m, n, [t |-> "bool", b |-> Lookup(m, e.value).valid])
      [] e.op = "binop" ->
            ExecBinop(m, n, e.fn, Lookup(m, e.lhs), Lookup(m, e.rhs))
      [] OTHER -> Fail(m, "NotImplementedError")

\* target[index] = value on an array; a store outside the array is
\* reported as an error of the execution
ExecSetItem(m, a, k, v) ==
    IF a.t # "array" \/ k.t # "int" THEN Fail(m, "TypeError")
    ELSE IF k.n < 0 \/ k.n >= m.arrays[a.ref].size
    THEN Fail(Log(m, [ev |-> "store", index |-> k.n, value |-> v]),
              "IndexError")
    ELSE Log([m EXCEPT !.arrays[a.ref].data[k.n + 1] = v, !.i = @ + 1],
             [ev |-> "store", index |-> k.n, value |-> v])

Truth(v) ==
    CASE v.t = "bool" -> v.b
      [] v.t = "int" -> v.n # 0
      [] OTHER -> TRUE

Goto(m, l) == [m EXCEPT !.label = l, !.i = 1]

\* One statement of the function
Exec(m, stmt, hp, args) ==
    CASE stmt.k = "assign" -> ExecAssign(m, stmt.target, hp[stmt.value], args)
      [] stmt.k = "setitem" ->
            ExecSetItem(m, Lookup(m, stmt.starget), Lookup(m, stmt.sindex),
                        Lookup(m, stmt.svalue))
      [] stmt.k = "del" -> [m EXCEPT !.i = @ + 1]
      [] stmt.k = "jump" -> Goto(m, stmt.label)
      [] stmt.k = "branch" ->
            Goto(m, IF Truth(Lookup(m, stmt.cond)) THEN stmt.truebr
                    ELSE stmt.falsebr)
      [] stmt.k = "return" ->
            [m EXCEPT !.status = "done",
                      !.log = Append(@, [ev |-> "return",
                                         value |-> Lookup(m, stmt.retval)])]

-----------------------------------------------------------------------------
(* Functions with a loop that appends to a list which is then made an      *)
(* array:                                                                  *)
(*     def f(n, m, s):                                                     *)
(*         r = []                    # or r = [0]                          *)
(*         for i in range(n):        # or range(m, n), range(m, n, s)      *)
(*             r.append(i * 2)                                             *)
(*         a = np.array(r)           # or np.array(r, dtype=np.float64)    *)
(*         return a                                                        *)
(* and variants of it that miss one of the conditions of the rewrite, or   *)
(* that store the array into another array afterwards.                     *)

MaxStop == 3
MaxNeg == 1
MaxStep == 2

\* the arguments of the call of range
RangeArgs(in) ==
    CASE in.shape = "range1" -> <<"n">>
      [] in.shape = "range2" -> <<"m", "n">>
      [] in.shape = "range3" -> <<"m", "n", "s">>

\* the values of the function's arguments n, m, s
ArgValues(in) == <<in.stop, in.start, in.step>>

\* the iterator of the loop
RangeText(in) ==
    <<Assign("$range", Global("range")),
      Assign("$call", Call("$range", RangeArgs(in), <<>>)),
      Assign("$iter", Getiter("$call"))>>

\* q.append(i), for a second list q
OtherAppendText ==
    <<Assign("$appq", Getattr("q", "append")),
      Assign("$cq", Call("$appq", <<"i">>, <<>>))>>

ListText(in) ==
    IF in.init = 0 THEN <<Assign("r", BuildList(<<>>))>>
    ELSE <<Assign("$c0", Const(0)), Assign("r", BuildList(<<"$c0">>))>>

EntryText(in) ==
    <<Assign("n", Arg(0)), Assign("m", Arg(1)), Assign("s", Arg(2))>>
    \o ListText(in)
    \o (IF in.variant = "list_two_defs"
        THEN <<Assign("r", BuildList(<<>>))>> ELSE <<>>)
    \o (IF in.variant \in {"two_lists_after", "two_lists_before"}
        THEN <<Assign("q", BuildList(<<>>))>> ELSE <<>>)
    \o (IF in.variant = "alias" THEN <<Assign("t", Var("r"))>> ELSE <<>>)
    \o RangeText(in)

HeaderText(in) ==
    <<Assign("$pair", Iternext("$iter")),
      Assign("$first", PairFirst("$pair"))>>
    \o (IF in.variant = "two_iters"
        THEN <<Assign("$first2", PairFirst("$pair"))>> ELSE <<>>)
    \o <<Assign("$valid", PairSecond("$pair")), Branch("$valid", 20, 30)>>

AppendText ==
    <<Assign("$app", Getattr("r", "append")),
      Assign("$two", Const(2)),
      Assign("$v", Binop("*", "i", "$two")),
      Assign("$c", Call("$app", <<"$v">>, <<>>))>>

\* the statements after `del r` that store the array into another one
StoreText(in) ==
    CASE in.store = "none" -> <<>>
      [] in.store = "fixable" ->
            <<Assign("$e", Global("unsafe_empty_inferred")),
              Assign("$tp", BuildTuple(<<"n">>)),
              Assign("b", Call("$e", <<"$tp">>, <<>>)),
              SetItem("b", "m", "a")>>
      [] in.store = "getitem_target" ->
            <<Assign("$e", Global("unsafe_empty_inferred")),
              Assign("$tp", BuildTuple(<<"n">>)),
              Assign("b0", Call("$e", <<"$tp">>, <<>>)),
              Assign("b", Getitem("b0", "m")),
              SetItem("b", "m", "a")>>
      [] in.store = "arg_target" ->
            <<Assign("b", Arg(3)), SetItem("b", "m", "a")>>
      [] in.store = "inner_not_alloc" ->
            <<Assign("$e", Global("unsafe_empty_inferred")),
              Assign("$tp", BuildTuple(<<"n">>)),
              Assign("b", Call("$e", <<"$tp">>, <<>>)),
              SetItem("b", "m", "n")>>
      [] in.store = "multi_def" ->
            <<Assign("$z", Getattr("$np", "zeros")),
              Assign("b", Call("$z", <<"n">>, <<>>)),
              Assign("b", Binop("+", "b", "m")),
              SetItem("b", "m", "a")>>
      [] in.store = "no_def" ->
            <<SetItem("q", "m", "a")>>
      [] in.store \in {"inner_first", "outer_first", "adjacent"} ->
            <<Assign("$e", Global("unsafe_empty_inferred")),
              Assign("$tp", BuildTuple(<<"m">>)),
              Assign("b", Call("$e", <<"$tp">>, <<>>)),
              Assign("$tc", BuildTuple(<<"s">>)),
              Assign("c", Call("$e", <<"$tc">>, <<>>))>>
            \o (CASE in.store = "inner_first" ->
                        <<SetItem("b", "m", "a"), Assign("$k", Const(0)),
                          SetItem("c", "s", "b")>>
                   [] in.store = "outer_first" ->
                        <<SetItem("c", "s", "b"), Assign("$k", Const(0)),
                          SetItem("b", "m", "a")>>
                   [] in.store = "adjacent" ->
                        <<SetItem("b", "m", "a"), SetItem("c", "s", "b")>>)

ExitText(in) ==
    IF in.variant = "no_array"
    THEN <<Assign("$ret", Cast("r")), Return("$ret")>>
    ELSE <<Assign("$np", Global("np")),
           Assign("$arr", Getattr("$np", "array"))>>
         \o (IF in.variant = "dtype_const"
             THEN <<Assign("$dt", Const(8)),
                    Assign("a", Call("$arr", <<"r">>, <<<<"dtype", "$dt">>>>))>>
             ELSE IF in.dtype
             THEN <<Assign("$dt", Getattr("$np", "float64")),
                    Assign("a", Call("$arr", <<"r">>, <<<<"dtype", "$dt">>>>))>>
             ELSE <<Assign("a", Call("$arr", <<"r">>, <<>>))>>)
         \o (IF in.variant = "not_dead" THEN <<>> ELSE <<Del("r")>>)
         \o StoreText(in)
         \o <<Assign("$ret", Cast("a")), Return("$ret")>>

LoopText(in) ==
    (IF in.variant = "two_entries"
     THEN (0 :> Blk(EntryText(in) \o <<Branch("n", 4, 6)>>))
          @@ (4 :> Blk(<<Jump(10)>>)) @@ (6 :> Blk(<<Jump(10)>>))
     ELSE IF in.variant = "list_outside"
     THEN (0 :> Blk(<<Assign("n", Arg(0)), Assign("m", Arg(1)),
                      Assign("s", Arg(2))>>
                    \o ListText(in) \o <<Branch("n", 2, 5)>>))
          @@ (2 :> Blk(<<Jump(5)>>))
          @@ (5 :> Blk(RangeText(in) \o <<Jump(10)>>))
     ELSE (0 :> Blk(EntryText(in) \o <<Jump(10)>>)))
    @@ (10 :> Blk(HeaderText(in)))
    @@ (CASE in.variant = "two_appends" ->
                (20 :> Blk(<<Assign("i", Var("$first"))>> \o AppendText
                           \o <<Assign("$app2", Getattr("r", "append")),
                                Assign("$c2", Call("$app2", <<"i">>, <<>>)),
                                Jump(10)>>))
          [] in.variant = "cond_append" ->
                (20 :> Blk(<<Assign("i", Var("$first")), Branch("i", 22, 24)>>))
                @@ (22 :> Blk(AppendText \o <<Jump(10)>>))
                @@ (24 :> Blk(<<Jump(10)>>))
          [] in.variant = "two_exits" ->
                (20 :> Blk(<<Assign("i", Var("$first")), Branch("i", 40, 22)>>))
                @@ (22 :> Blk(AppendText \o <<Jump(10)>>))
                @@ (40 :> Blk(<<Return("i")>>))
          [] in.variant = "break" ->
                (20 :> Blk(<<Assign("i", Var("$first")), Branch("i", 30, 22)>>))
                @@ (22 :> Blk(AppendText \o <<Jump(10)>>))
          [] in.variant = "two_lists_after" ->
                (20 :> Blk(<<Assign("i", Var("$first"))>> \o AppendText
                           \o OtherAppendText \o <<Jump(10)>>))
          [] in.variant = "two_lists_before" ->
                (20 :> Blk(<<Assign("i", Var("$first"))>> \o OtherAppendText
                           \o AppendText \o <<Jump(10)>>))
          [] OTHER ->
                (20 :> Blk(<<Assign("i", Var("$first"))>> \o AppendText
                           \o <<Jump(10)>>)))
    @@ (30 :> Blk(ExitText(in)))

(* Functions with two loops:                                               *)
(*   nested:  out = []                                                     *)
(*            for i in range(..):                                          *)
(*                r = []                                                   *)
(*                for j in range(..): r.append(j)                          *)
(*                out.append(np.array(r))                                  *)
(*            a = np.array(out)                                            *)
(*   flat:    r = []                                                       *)
(*            for i in range(..):                                          *)
(*                for j in range(..): r.append(j)                          *)
(*            a = np.array(r)                                              *)
(*   seq:     r = []                                                       *)
(*            for i in range(..): r.append(i * 2)                          *)
(*            a = np.array(r)                                              *)
(*            q = []                                                       *)
(*            for j in range(..): q.append(j)                              *)
(*            b = np.array(q)                                              *)

\* the iterator and the header of the second loop
Range2Text(in) ==
    <<Assign("$range2", Global("range")),
      Assign("$call2", Call("$range2", RangeArgs(in), <<>>)),
      Assign("$iter2", Getiter("$call2"))>>

Header2Text(body, exit) ==
    <<Assign("$pair2", Iternext("$iter2")),
      Assign("$first2", PairFirst("$pair2")),
      Assign("$valid2", PairSecond("$pair2")),
      Branch("$valid2", body, exit)>>

\* lst.append(j) in the second loop
Append2Text(lst) ==
    <<Assign("j", Var("$first2")),
      Assign("$app2", Getattr(lst, "append")),
      Assign("$c2", Call("$app2", <<"j">>, <<>>))>>

\* arr = np.array(lst); del lst
ArrayText(np, arr, lst) ==
    <<Assign(np, Global("np")),
      Assign(np \o "a", Getattr(np, "array")),
      Assign(arr, Call(np \o "a", <<lst>>, <<>>)),
      Del(lst)>>

LoopArgsText ==
    <<Assign("n", Arg(0)), Assign("m", Arg(1)), Assign("s", Arg(2))>>

ReturnText(v) == <<Assign("$ret", Cast(v)), Return("$ret")>>

\* the header of the first loop, left for the block `exit`
Header1Text(in, exit) ==
    SubSeq(HeaderText(in), 1, Len(HeaderText(in)) - 1)
    \o <<Branch("$valid", 20, exit)>>

NestText(in) ==
    CASE in.variant = "nested" ->
            (0 :> Blk(LoopArgsText \o <<Assign("out", BuildList(<<>>))>>
                      \o RangeText(in) \o <<Jump(10)>>))
            @@ (10 :> Blk(Header1Text(in, 50)))
            @@ (20 :> Blk(<<Assign("i", Var("$first")),
                            Assign("r", BuildList(<<>>))>>
                          \o Range2Text(in) \o <<Jump(30)>>))
            @@ (30 :> Blk(Header2Text(40, 45)))
            @@ (40 :> Blk(Append2Text("r") \o <<Jump(30)>>))
            @@ (45 :> Blk(ArrayText("$np2", "b", "r")
                          \o <<Assign("$app", Getattr("out", "append")),
                               Assign("$c", Call("$app", <<"b">>, <<>>)),
                               Jump(10)>>))
            @@ (50 :> Blk(ArrayText("$np", "a", "out") \o ReturnText("a")))
      [] in.variant = "flat" ->
            (0 :> Blk(LoopArgsText \o <<Assign("r", BuildList(<<>>))>>
                      \o RangeText(in) \o <<Jump(10)>>))
            @@ (10 :> Blk(Header1Text(in, 50)))
            @@ (20 :> Blk(<<Assign("i", Var("$first"))>>
                          \o Range2Text(in) \o <<Jump(30)>>))
            @@ (30 :> Blk(Header2Text(40, 45)))
            @@ (40 :> Blk(Append2Text("r") \o <<Jump(30)>>))
            @@ (45 :> Blk(<<Jump(10)>>))
            @@ (50 :> Blk(ArrayText("$np", "a", "r") \o ReturnText("a")))
      [] in.variant = "seq" ->
            (0 :> Blk(EntryText(in) \o <<Jump(10)>>))
            @@ (10 :> Blk(HeaderText(in)))
            @@ (20 :> Blk(<<Assign("i", Var("$first"))>> \o AppendText
                          \o <<Jump(10)>>))
            @@ (30 :> Blk(ArrayText("$np", "a", "r")
                          \o <<Assign("q", BuildList(<<>>))>>
                          \o Range2Text(in) \o <<Jump(40)>>))
            @@ (40 :> Blk(Header2Text(50, 60)))
            @@ (50 :> Blk(Append2Text("q") \o <<Jump(40)>>))
            @@ (60 :> Blk(ArrayText("$np3", "b", "q") \o ReturnText("b")))

NestVariants == {"nested", "flat", "seq"}

\* The text of the function of an input
ProgramText(in) == IF in.prog = "nest" THEN NestText(in) ELSE LoopText(in)

LoopInput(shape, start, stop, step, init, dtype, prange, variant, store) ==
    [prog |-> "loop", shape |-> shape, start |-> start, stop |-> stop,
     step |-> step, init |-> init, dtype |-> dtype, prange |-> prange,
     variant |-> variant, store |-> store]

\* range(stop), range(start, stop), range(start, stop, step) with small
\* bounds, negative ones included
Ranges ==
    {<<"range1", 0, stop, 1>> : stop \in (0 - MaxNeg)..MaxStop}
    \cup {<<"range2", start, stop, 1>> :
            start \in (0 - MaxNeg)..(MaxStop - 1), stop \in (0 - MaxNeg)..MaxStop}
    \cup {<<"range3", start, stop, step>> :
            start \in 0..1, stop \in 0..MaxStop, step \in 1..MaxStep}

Variants ==
    {"two_exits", "no_array", "not_dead", "dtype_const", "list_two_defs",
     "two_appends", "cond_append", "two_iters", "two_entries", "break"}

Stores ==
    {"fixable", "getitem_target", "arg_target", "inner_not_alloc",
     "multi_def", "no_def", "inner_first", "outer_first", "adjacent"}

\* variants of the function whose entry block holds more than the one list,
\* or not the list
FrameVariants ==
    {"list_outside", "two_lists_after", "two_lists_before", "alias"}

LoopInputs ==
    {LoopInput(r[1], r[2], r[3], r[4], init, dtype, prange, "ok", "none") :
        r \in Ranges, init \in 0..1, dtype \in BOOLEAN, prange \in BOOLEAN}
    \cup {LoopInput(shape, 1, 3, 1, 0, FALSE, TRUE, v, "none") :
            shape \in {"range1", "range2", "range3"}, v \in Variants}
    \cup {LoopInput("range1", 1, 2, 1, 0, dtype, FALSE, "ok", st) :
            dtype \in BOOLEAN, st \in Stores}
    \cup {LoopInput(shape, 1, 3, 1, 0, FALSE, FALSE, v, "none") :
            shape \in {"range1", "range2", "range3"}, v \in FrameVariants}
    \cup {[rev |-> rev]
            @@ [LoopInput(shape, 1, 3, 1, 0, FALSE, FALSE, v, "none")
                    EXCEPT !.prog = "nest"] :
            shape \in {"range1", "range2", "range3"}, v \in NestVariants,
            rev \in BOOLEAN}

\* The functions whose IR is executed before and after the pass: those
\* with one loop and one list, without a store into a second array.
Executed(in) ==
    in.prog = "loop" /\ in.store = "none" /\ in.variant \notin FrameVariants

\* cfg.loops() is a dict keyed by the loops' headers: the order of its keys
\* is one of the orders of the headers (two of them are tried).
Reverse(seq) == [i \in DOMAIN seq |-> seq[Len(seq) + 1 - i]]

LoopsOrder(in, g) ==
    IF in.prog = "nest" /\ in.rev THEN Reverse(SortedSeq(DOMAIN g.loops))
    ELSE SortedSeq(DOMAIN g.loops)

-----------------------------------------------------------------------------
(* The cleanup of run(), lines 81-87: remove_dels, remove_dead until       *)
(* nothing is removed, rename_labels.                                      *)

\* The variables an expression reads
UsesOfExpr(e) ==
    CASE e.op = "var" -> {e.name}
      [] e.op = "call" ->
            {e.func} \cup Range(e.args) \cup {e.kws[j][2] : j \in DOMAIN e.kws}
      [] e.op = "make_function" -> {e.closure} \ {""}
      [] e.op \in {"build_tuple", "build_list"} -> Range(e.items)
      [] e.op \in {"cast", "getattr", "getiter", "iternext", "pair_first",
                   "pair_second"} -> {e.value}
      [] e.op = "binop" -> {e.lhs, e.rhs}
      [] e.op = "getitem" -> {e.value, e.gindex}
      [] OTHER -> {}

\* The variables a statement reads
UsesOfStmt(s, hp) ==
    CASE s.k = "assign" -> UsesOfExpr(hp[s.value])
      [] s.k = "setitem" -> {s.starget, s.sindex, s.svalue}
      [] s.k = "branch" -> {s.cond}
      [] s.k = "return" -> {s.retval}
      [] OTHER -> {}

UsedNames(blks, hp) ==
    UNION {UsesOfStmt(s, hp) : s \in Range(AllStmts(blks))}

\* remove_dels(blocks)
RemoveDels(blks) ==
    [l \in DOMAIN blks |->
        [blks[l] EXCEPT !.body = SelectSeq(@, LAMBDA s : s.k # "del")]]

\* One round of remove_dead: the assignments of a value without side
\* effects to a variable nothing reads are removed.
RemoveUnused(blks, hp, used) ==
    [l \in DOMAIN blks |->
        [blks[l] EXCEPT !.body = SelectSeq(@, LAMBDA s :
            ~(IsAssign(s) /\ s.target \notin used /\ hp[s.value].op # "call"))]]

RECURSIVE RemoveDeadFrom(_, _, _)
RemoveDeadFrom(blks, hp, next) ==
    IF next = blks THEN blks
    ELSE RemoveDeadFrom(next, hp, RemoveUnused(next, hp, UsedNames(next, hp)))

\* while remove_dead(blocks, arg_names): pass
RemoveDead(blks, hp) ==
    RemoveDeadFrom(blks, hp, RemoveUnused(blks, hp, UsedNames(blks, hp)))

\* rename_labels(blocks): the labels become 0, 1, ... in topological order
NewLabel(topo, l) == (CHOOSE j \in DOMAIN topo : topo[j] = l) - 1

RenameLabelsIn(blks, topo) ==
    [n \in {j - 1 : j \in DOMAIN topo} |->
        [blks[topo[n + 1]] EXCEPT !.body =
            [i \in DOMAIN @ |->
                CASE @[i].k = "jump" -> Jump(NewLabel(topo, @[i].label))
                  [] @[i].k = "branch" ->
                        Branch(@[i].cond, NewLabel(topo, @[i].truebr),
                               NewLabel(topo, @[i].falsebr))
                  [] OTHER -> @[i]]]]

RenameLabels(blks) == RenameLabelsIn(blks, FindTopoOrder(blks))

-----------------------------------------------------------------------------
(* run(), lines 61-87: the loops of the function, bigger loops first, then *)
(* the nested array fixup and the cleanup.  The function is executed       *)
(* before the pass and after it, to compare what the two IRs compute.      *)

InitLoop ==
    \E in \in LoopInputs : \E ld \in {Load(ProgramText(in), 0)} :
      \E g \in {ComputeCfg(ld.blocks)} :
        /\ input = in
        /\ phase = IF Executed(in) THEN "run_orig" ELSE "loops"
        /\ blocks = ld.blocks
        /\ heap = ld.exprs
        /\ definitions = BuildDefinitions(ld.blocks)
        /\ scope = NamesOf(ld.blocks, ld.exprs)
        /\ work_list = <<>>
        /\ max_label = Max(DOMAIN ld.blocks)
        /\ unique_var = 0
        /\ error = ""
        /\ n_inlined = 0
        /\ last = [op |-> "init"]
        /\ modified = FALSE
        /\ cfg = g
        /\ visited = <<>>
        /\ todo = SortLoops(g, LoopsOrder(in, g))
        /\ temps = 0
        /\ machine = StartMachine(ld.blocks)
        /\ trace = [orig |-> <<>>, new |-> <<>>, rewritten |-> <<>>,
                    attempts |-> <<>>]

\* One statement of the function is executed.
RunStep ==
    /\ phase \in {"run_orig", "run_new"} /\ machine.status = "run"
    /\ machine' =
        IF machine.i > Len(blocks[machine.label].body)
        THEN Fail(machine, "NoTerminator")
        ELSE Exec(machine, blocks[machine.label].body[machine.i], heap,
                  ArgValues(input))
    /\ UNCHANGED <<input, phase, blocks, definitions, heap, error, last,
                   modified, cfg, visited, todo, temps, trace>>
    /\ UNCHANGED inlinevars

\* The execution has ended: the pass starts, or all is done.
RunEnd ==
    /\ phase \in {"run_orig", "run_new"} /\ machine.status # "run"
    /\ IF phase = "run_orig"
       THEN /\ phase' = "loops"
            /\ trace' = [trace EXCEPT !.orig = machine]
       ELSE /\ phase' = "done"
            /\ trace' = [trace EXCEPT !.new = machine]
    /\ machine' = StartMachine(blocks)
    /\ UNCHANGED <<input, blocks, definitions, heap, error, last, modified,
                   cfg, visited, todo, temps>>
    /\ UNCHANGED inlinevars

\* lines 73-77: one loop is visited and _inline_arraycall is tried on it
TryLoop ==
    /\ phase = "loops" /\ error = "" /\ todo # <<>>
    /\ \E r \in {InlineArraycall(
                    [blocks |-> blocks, definitions |-> definitions,
                     heap |-> heap, temps |-> temps],
                    cfg, Append(visited, Head(todo)), cfg.loops[Head(todo)],
                    input.prange)} :
          /\ visited' = Append(visited, Head(todo))
          /\ todo' = Tail(todo)
          /\ blocks' = r.blocks
          /\ definitions' = r.definitions
          /\ heap' = r.heap
          /\ temps' = r.temps
          /\ modified' = (modified \/ r.res = "rewritten")
          /\ error' = IF r.res \in {"mismatch", "rewritten"} THEN "" ELSE r.res
          /\ phase' = IF r.res \in {"mismatch", "rewritten"} THEN "loops"
                      ELSE "failed"
          /\ trace' = [trace EXCEPT
                        !.rewritten = IF r.res = "rewritten"
                                      THEN Append(@, r.loop.header) ELSE @,
                        !.attempts = Append(@, [header |-> r.loop.header,
                                                res |-> r.res,
                                                vis |-> r.vis])]
          /\ last' = [op |-> "arraycall"] @@ r
    /\ UNCHANGED <<input, cfg, machine>>
    /\ UNCHANGED inlinevars

\* lines 78-79: after the last loop, _fix_nested_array if anything changed
FixNested ==
    /\ phase = "loops" /\ error = "" /\ todo = <<>>
    /\ \E r \in {IF modified THEN FixNestedArray(blocks, definitions, heap)
                 ELSE [blocks |-> blocks, heap |-> heap, err |-> "",
                       fixed |-> <<>>, steps |-> <<>>]} :
          /\ blocks' = r.blocks
          /\ heap' = r.heap
          /\ error' = r.err
          /\ phase' = IF r.err # "" THEN "failed" ELSE "cleanup"
          /\ last' = [op |-> "fix", called |-> modified, fixed |-> r.fixed,
                      steps |-> r.steps,
                      pre |-> [blocks |-> blocks, heap |-> heap]]
    /\ UNCHANGED <<input, definitions, modified, cfg, visited, todo, temps,
                   machine, trace>>
    /\ UNCHANGED inlinevars

\* lines 81-87: the cleanup, if anything changed; run() returns
Cleanup ==
    /\ phase = "cleanup"
    /\ \E b \in {IF modified
                 THEN RenameLabels(RemoveDead(RemoveDels(blocks), heap))
                 ELSE blocks} :
          /\ blocks' = b
          /\ machine' = StartMachine(b)
    /\ phase' = IF Executed(input) THEN "run_new" ELSE "done"
    /\ UNCHANGED <<input, definitions, heap, error, last, modified, cfg,
                   visited, todo, temps, trace>>
    /\ UNCHANGED inlinevars

NextLoop == RunStep \/ RunEnd \/ TryLoop \/ FixNested \/ Cleanup

SpecLoop == InitLoop /\ [][NextLoop]_vars

-----------------------------------------------------------------------------
(* Properties of the loop rewrite and of the fixup (checked under          *)
(* SpecLoop).                                                              *)

\* The events of one kind in the log of an execution
Events(log, ev) == SelectSeq(log, LAMBDA e : e.ev = ev)

\* Both executions are over and the function's loop was rewritten.
RewrittenAndRun == phase = "done" /\ Executed(input) /\ trace.rewritten # <<>>

\* C2: when _inline_arraycall ends in a mismatch, the blocks' statement
\* lists, the definitions table and the expression objects (the range
\* global among them) are the ones the call found.
C2_MismatchLeavesIR ==
    (last.op = "arraycall" /\ last.res = "mismatch") =>
        /\ blocks = last.pre.blocks
        /\ definitions = last.pre.definitions
        /\ heap = last.pre.heap
        /\ temps = last.pre.temps

\* the mismatch is found by the last check (the loop has two entries, all
\* the checks before it passed) on a loop whose index would need a counter
C2_Witness ==
    /\ last.op = "arraycall" /\ last.res = "mismatch"
    /\ input.variant = "two_entries" /\ input.shape = "range2"
    /\ Len(last.appends) = 1 /\ Cardinality(last.loop.entries) = 2

\* C3: for a rewritten loop, the length of the original list at the array
\* call equals the size the new array is allocated with, and the number of
\* stores the rewritten loop executes.
C3_SizeIsListLength ==
    (RewrittenAndRun /\ trace.orig.status = "done") =>
        /\ Events(trace.new.log, "alloc") # <<>>
        /\ Events(trace.orig.log, "array")[1].len =
                Events(trace.new.log, "alloc")[1].size
        /\ Len(Events(trace.new.log, "store")) =
                Events(trace.new.log, "alloc")[1].size

\* The index variable of the three iterator shapes, as the rewrite leaves
\* it: (a) the loop's current value; (b) the current value minus start,
\* first statement of the block of the header's true edge; (c) a counter
\* that is -1 in the entry block and incremented at the end of the header.
IndexShape ==
    IF last.range_def.ok /\ last.range_def.zero
    THEN \E i \in DOMAIN blocks[last.loop.header].body :
            /\ IsAssign(blocks[last.loop.header].body[i])
            /\ blocks[last.loop.header].body[i].target = last.index_var
            /\ heap[blocks[last.loop.header].body[i].value].op = "pair_first"
    ELSE /\ \E i \in DOMAIN blocks[last.entry].body :
                /\ IsAssign(blocks[last.entry].body[i])
                /\ blocks[last.entry].body[i].target = last.index_var
                /\ heap[blocks[last.entry].body[i].value] = Const(-1)
         /\ IF last.range_def.ok
            THEN \E first \in {Head(blocks[Terminator(
                        blocks[last.loop.header].body).truebr].body)} :
                    /\ first.target = last.index_var
                    /\ heap[first.value].op = "binop"
                    /\ heap[first.value].fn = "-"
                    /\ heap[first.value].rhs = last.range_def.start
                    /\ heap[definitions[heap[first.value].lhs][1]].op
                            = "pair_first"
            ELSE \E body \in {blocks[last.loop.header].body} :
                    /\ Len(body) >= 4
                    /\ body[Len(body) - 1].target = last.index_var
                    /\ heap[body[Len(body) - 1].value].op = "var"
                    /\ heap[body[Len(body) - 1].value].name =
                            body[Len(body) - 2].target
                    /\ heap[body[Len(body) - 2].value].op = "binop"
                    /\ heap[body[Len(body) - 2].value].fn = "+"
                    /\ heap[body[Len(body) - 2].value].lhs = last.index_var
                    /\ heap[body[Len(body) - 2].value].rhs =
                            body[Len(body) - 3].target
                    /\ heap[body[Len(body) - 3].value] = Const(1)

\* C4: the k-th store of the rewritten loop (k from 0) writes the value of
\* the k-th append of the original loop at index k, whatever the shape of
\* the iterator; an execution that ends normally stores every appended
\* value.
C4_StoreOrder ==
    /\ (last.op = "arraycall" /\ last.res = "rewritten") => IndexShape
    /\ RewrittenAndRun =>
        /\ \A k \in DOMAIN Events(trace.new.log, "store") :
            /\ k <= Len(Events(trace.orig.log, "append"))
            /\ Events(trace.new.log, "store")[k].index = k - 1
            /\ Events(trace.new.log, "store")[k].value =
                    Events(trace.orig.log, "append")[k].value
        /\ trace.new.status = "done" =>
                Len(Events(trace.new.log, "store")) =
                    Len(Events(trace.orig.log, "append"))

\* a loop over range(m, n, 2), whose index is a counter, stored two values
C4_Witness ==
    /\ RewrittenAndRun /\ input.shape = "range3" /\ input.step = 2
    /\ trace.new.status = "done"
    /\ Len(Events(trace.new.log, "store")) = 2

\* C5: for a rewritten loop over range(stop) or range(start, stop) the
\* size of the allocation equals the number of iterations of the loop.
C5_SizeIsTripCount ==
    (RewrittenAndRun /\ input.variant = "ok"
        /\ input.shape \in {"range1", "range2"}) =>
        /\ Events(trace.new.log, "alloc") # <<>>
        /\ Events(trace.new.log, "alloc")[1].size =
                Len(Events(trace.orig.log, "next"))

\* The indexed stores of a block map, with their labels
StoresOf(blks) ==
    UNION {{<<l, s>> : s \in {t \in Range(blks[l].body) : t.k = "setitem"}} :
            l \in DOMAIN blks}

\* C10: _fix_nested_array raises no fatal error; every store it did not
\* fix is still in its block, and when no store was fixed no expression
\* object has changed.
C10_FailedFixLeavesStore ==
    (last.op = "fix" /\ last.called /\ phase \in {"cleanup", "failed"}) =>
        /\ error = ""
        /\ \A p \in StoresOf(last.pre.blocks) :
                p[2] \notin Range(last.fixed) => p \in StoresOf(blocks)
        /\ last.fixed = <<>> => heap = last.pre.heap


-----------------------------------------------------------------------------
(* Properties of _fix_nested_array (checked under SpecLoop).               *)

\* The shape tuple an allocation is called with
ShapeTupleOf(defs, hp, alloc) ==
    GetDefinition(defs, hp, hp[alloc].args[1]).id

\* The items of a shape, each named by the variable its value comes from
Resolved(defs, hp, items) ==
    [j \in DOMAIN items |-> GetDefinition(defs, hp, items[j]).lhs]

\* The allocation that defines the stored value, through a cast
RhsAllocOf(defs, hp, rhs_def) ==
    IF hp[rhs_def.id].op = "cast"
    THEN GetDefinition(defs, hp, hp[rhs_def.id].value).id
    ELSE rhs_def.id

\* The outer and the inner allocation of a fixed store, in the objects `hp`
OuterOf(defs, hp, step) == FindArrayDef(defs, hp, step.stmt.starget).id

InnerOf(defs, hp, step) ==
    RhsAllocOf(defs, hp, GetDefinition(defs, hp, step.stmt.svalue))

\* What one fixed store outer[idx] = inner did to the objects: o and r are
\* the two allocations, t and d their shape tuples.
StoreFixed(defs, step, o, r, t, d) ==
    /\ step.after[t].items =
            step.before[t].items
                \o Resolved(defs, step.before, step.before[d].items)
    /\ step.after[r] =
            Getitem(GetDefinition(defs, step.before, step.stmt.starget).lhs,
                    step.stmt.sindex)
    /\ DOMAIN step.after = DOMAIN step.before
    /\ \A id \in DOMAIN step.before \ {t, r} :
            step.after[id] = step.before[id]
    /\ step.body[step.i] = step.stmt

StoreContract(defs, step) ==
    StoreFixed(defs, step,
               OuterOf(defs, step.before, step),
               InnerOf(defs, step.before, step),
               ShapeTupleOf(defs, step.before,
                            OuterOf(defs, step.before, step)),
               ShapeTupleOf(defs, step.before,
                            InnerOf(defs, step.before, step)))

\* The shapes of the levels of a nest, from the allocation `alloc` inwards,
\* as they were before the fixup (hp: the objects before it).
RECURSIVE NestShape(_, _, _, _)
NestShape(defs, hp, steps, alloc) ==
    Resolved(defs, hp, hp[ShapeTupleOf(defs, hp, alloc)].items)
    \o (IF \E k \in DOMAIN steps : OuterOf(defs, hp, steps[k]) = alloc
        THEN NestShape(defs, hp, steps,
                InnerOf(defs, hp,
                    steps[CHOOSE k \in DOMAIN steps :
                            OuterOf(defs, hp, steps[k]) = alloc]))
        ELSE <<>>)

\* The outermost allocations of the fixed stores
Outermost(defs, hp, steps) ==
    {OuterOf(defs, hp, steps[k]) : k \in DOMAIN steps}
        \ {InnerOf(defs, hp, steps[k]) : k \in DOMAIN steps}

\* C11: a fixed store outer[idx] = inner leaves outer's shape tuple as its
\* former items followed by those of inner's shape tuple, inner's defining
\* expression as the read outer[idx], no other object changed; the blocks
\* afterwards are the former ones without the fixed stores; the outermost
\* allocation of a nest of several levels has the shapes of all levels, in
\* either order of the stores.
C11_FixContract ==
    (last.op = "fix" /\ last.called /\ phase = "cleanup") =>
        /\ \A k \in DOMAIN last.steps : StoreContract(definitions, last.steps[k])
        /\ \A l \in DOMAIN last.pre.blocks :
                blocks[l].body =
                    SelectSeq(last.pre.blocks[l].body,
                              LAMBDA s : s \notin Range(last.fixed))
        /\ \A o \in Outermost(definitions, last.pre.heap, last.steps) :
                Resolved(definitions, heap,
                         heap[ShapeTupleOf(definitions, last.pre.heap, o)].items)
                    = NestShape(definitions, last.pre.heap, last.steps, o)

\* three levels, the store into the outermost array fixed first: the
\* second store finds its target's allocation through the read the first
\* fix left, and the outermost shape has three items
C11_Witness ==
    /\ last.op = "fix" /\ phase = "cleanup" /\ input.store = "outer_first"
    /\ Len(last.steps) = 2
    /\ last.steps[2].before[GetDefinition(definitions, last.steps[2].before,
                                          last.steps[2].stmt.starget).id].op
            = "getitem"
    /\ \E o \in Outermost(definitions, last.pre.heap, last.steps) :
            Len(heap[ShapeTupleOf(definitions, last.pre.heap, o)].items) = 3


-----------------------------------------------------------------------------
(* Properties of the checks and of the order of the loop rewrites (checked *)
(* under SpecLoop).                                                        *)

\* The blocks of the loop of the last attempt, other than the block of the
\* append, that jump back to the header
OtherLatches ==
    (cfg.preds[last.loop.header] \cap last.loop.body) \ {last.appends[1][1]}

\* C12: a rewritten loop's header has the loop's entries and the block of
\* the append as its predecessors, and no other; a loop in which a block
\* other than the one of the append jumps back to the header is left as
\* it was.
C12_PredsAreEntriesAndAppend ==
    last.op = "arraycall" =>
        /\ last.res = "rewritten" =>
                cfg.preds[last.loop.header] =
                    last.loop.entries \cup {last.appends[1][1]}
        /\ (Len(last.appends) = 1 /\ OtherLatches # {}) =>
                /\ last.res = "mismatch"
                /\ blocks = last.pre.blocks
                /\ definitions = last.pre.definitions
                /\ heap = last.pre.heap

\* the append is in one arm of a branch of the body; both arms jump back
\* to the header, and the checks before the one of the predecessors passed
C12_Witness ==
    /\ last.op = "arraycall" /\ last.res = "mismatch"
    /\ input.variant = "cond_append"
    /\ last.appends = <<<<22, 4>>>>
    /\ last.exit_block = 30 /\ last.list_var_def # 0
    /\ OtherLatches = {24}


\* The positions, in the body of a block, of the assignments of the object id
AssignsOf(body, id) ==
    {i \in DOMAIN body : IsAssign(body[i]) /\ body[i].value = id}

\* C13: a loop is rewritten only if the build_list matched for the array
\* call is assigned in the loop's single entry block.
C13_ListBuiltInEntry ==
    (last.op = "arraycall" /\ last.res = "rewritten") =>
        AssignsOf(last.pre.blocks[last.entry].body, last.list_var_def) # {}


\* The statements of an entry block before its terminator, split as the
\* rewrite is meant to split them: removed are the targets of the
\* assignment of the list construction `id` and of the copies of an
\* already removed variable, kept are the other statements.
RECURSIVE SplitEntry(_, _, _, _)
SplitEntry(hp, body, id, acc) ==
    IF Len(body) <= 1 THEN acc
    ELSE SplitEntry(hp, Tail(body), id,
            IF IsAssign(Head(body))
               /\ \/ Head(body).value = id
                  \/ /\ hp[Head(body).value].op = "var"
                     /\ hp[Head(body).value].name \in Range(acc.removed)
            THEN [acc EXCEPT !.removed = Append(@, Head(body).target)]
            ELSE [acc EXCEPT !.kept = Append(@, Head(body))])

\* The entry block after the rewrite, against the split of the one before:
\* the kept statements come first, in order; the statements after them
\* define temporaries or removed variables; the terminator is the old one.
EntryFrame(body, old, split) ==
    /\ last.removed = split.removed
    /\ Len(body) > Len(split.kept)
    /\ SubSeq(body, 1, Len(split.kept)) = split.kept
    /\ \A i \in (Len(split.kept) + 1)..(Len(body) - 1) :
            /\ IsAssign(body[i])
            /\ body[i].target \in
                    Range(split.removed)
                        \cup {MakeTemp(n) : n \in (last.pre.temps + 1)..temps}
    /\ Terminator(body) = Terminator(old)
    /\ \A j \in DOMAIN split.removed :
            /\ Len(DefsOf(definitions, split.removed[j])) = 1
            /\ heap[definitions[split.removed[j]][1]] = Var(last.array_var)

\* C17: the rewrite removes from the entry block the assignment of the list
\* construction matched for the array call and the copies of removed
\* variables, nothing else; every removed variable is defined again as the
\* new array; the other statements are kept in order, the construction of
\* another list among them.
C17_EntryFrame ==
    (last.op = "arraycall" /\ last.res = "rewritten") =>
        EntryFrame(blocks[last.entry].body, last.pre.blocks[last.entry].body,
                   SplitEntry(last.pre.heap, last.pre.blocks[last.entry].body,
                              last.list_var_def,
                              [removed |-> <<>>, kept |-> <<>>]))


\* The headers of the loops whose body is a proper part of the body of h
NestedIn(g, h) ==
    {x \in DOMAIN g.loops :
        /\ g.loops[x].body \subseteq g.loops[h].body
        /\ g.loops[x].body # g.loops[h].body}

\* The position of x in a sequence without repetitions
PosIn(seq, x) == CHOOSE i \in DOMAIN seq : seq[i] = x

\* The calls, in the blocks `labels`, of the append attribute of a variable
\* that is defined by the object id
AppendsOn(defs, hp, blks, labels, id) ==
    {p \in Range(CallsIn(blks, hp, SortedSeq(labels))) :
        \E f \in {GetDefinition(defs, hp, hp[blks[p[1]].body[p[2]].value].func)} :
            /\ f.ok /\ hp[f.id].op = "getattr" /\ hp[f.id].attr = "append"
            /\ GetDefinition(defs, hp, hp[f.id].value).ok
            /\ GetDefinition(defs, hp, hp[f.id].value).id = id}

\* The blocks of loop h that are in no loop nested in h
OwnBlocks(g, h) ==
    g.loops[h].body \ UNION {g.loops[x].body : x \in NestedIn(g, h)}

\* The attempts so far: one per loop, bigger bodies first, equal sizes in
\* the order of the analysis; each found its own header in visited, after
\* the headers of the attempts before it, and no header of a nested loop.
AttemptsInOrder(att, order) ==
    /\ \A i, j \in DOMAIN att :
            i < j =>
                /\ att[i].header # att[j].header
                /\ Cardinality(cfg.loops[att[i].header].body)
                        >= Cardinality(cfg.loops[att[j].header].body)
                /\ Cardinality(cfg.loops[att[i].header].body)
                        = Cardinality(cfg.loops[att[j].header].body)
                    => PosIn(order, att[i].header) < PosIn(order, att[j].header)
    /\ \A k \in DOMAIN att :
            /\ att[k].header \in DOMAIN cfg.loops
            /\ att[k].vis = [i \in 1..k |-> att[i].header]
            /\ NestedIn(cfg, att[k].header) \cap Range(att[k].vis) = {}

\* C14: run() tries the rewrite once per loop, bigger bodies first, ties in
\* the order of the analysis, the header in visited before the attempt
\* whatever its outcome; the loops nested in the loop of an attempt are
\* unvisited, the appends counted for it are in blocks of no nested loop,
\* and a loop is rewritten only if its list is appended in such a block.
C14_LoopOrder ==
    /\ AttemptsInOrder(trace.attempts, LoopsOrder(input, cfg))
    /\ visited = [i \in DOMAIN trace.attempts |-> trace.attempts[i].header]
    /\ phase \in {"cleanup", "run_new", "done"} =>
            Range(visited) = DOMAIN cfg.loops
    /\ last.op = "arraycall" =>
        /\ \A i \in DOMAIN last.appends :
                last.appends[i][1] \in OwnBlocks(cfg, last.loop.header)
        /\ last.res = "rewritten" =>
                \E p \in AppendsOn(last.pre.definitions, last.pre.heap,
                                   last.pre.blocks, last.loop.body,
                                   last.list_var_def) :
                    p[1] \in OwnBlocks(cfg, last.loop.header)

\* the analysis gave the inner loop first; the enclosing loop is tried
\* first, with the inner loop unvisited: the append on its list, in a
\* block of the inner loop, is not counted and the loop is not rewritten
C14_Witness ==
    /\ last.op = "arraycall" /\ input.prog = "nest" /\ input.variant = "flat"
    /\ LoopsOrder(input, cfg) = <<30, 10>>
    /\ trace.attempts = <<[header |-> 10, res |-> "mismatch", vis |-> <<10>>]>>
    /\ last.appends = <<>>
    /\ AppendsOn(last.pre.definitions, last.pre.heap, last.pre.blocks,
                 last.loop.body, last.list_var_def) = {<<40, 3>>}


\* C16: when _fix_nested_array has returned, no block holds a store that
\* satisfies all the preconditions of the fixup (two such stores next to
\* each other in a block included).
C16_AllStoresFixed ==
    (last.op = "fix" /\ last.called /\ phase = "cleanup") =>
        \A p \in StoresOf(blocks) :
            FixArrayAssign(definitions, heap, p[2]).res # "fixed"


-----------------------------------------------------------------------------
(* Termination of the inlining worklist (checked under SpecInlineFair).    *)

\* The condition under which the scan of the popped block reaches an
\* inlinable call (lines 44-53), the guard of InlineCall.
InlineCallEnabled ==
    /\ phase = "inline" /\ error = "" /\ work_list # <<>>
    /\ n_inlined < MaxInline
    /\ Candidates(blocks, definitions, heap, work_list[Len(work_list)]) # {}

\* The statements of run() are executed one after the other: an iteration
\* of `while work_list` that can be taken is taken.  The weak fairness of
\* InlineCall is written out with its guard.
SpecInlineFair ==
    /\ SpecInline
    /\ WF_vars(ScanBlock) /\ WF_vars(InlineDone)
    /\ ([]<>(~InlineCallEnabled) \/ []<><<InlineCall>>_vars)

====
